---------------------------- MODULE Spec2Model ----------------------------
(***************************************************************************)
(* Podcast Summary Bot: the orchestrator (src/main.py), the episode        *)
(* tracker (src/storage/tracker.py), the episode detectors                 *)
(* (src/services/rss_parser.py) and the transcript router                  *)
(* (src/services/transcript.py), as state machines.                        *)
(*                                                                         *)
(* One operating-system process is one invocation of main(): it builds the *)
(* bot (which loads the tracker file), performs one run over PODCASTS and  *)
(* exits.  The tracker file, the published episodes and the chat are the   *)
(* only things that outlive a process.                                     *)
(***************************************************************************)
EXTENDS Integers, Sequences, FiniteSets, TLC

(***************************************************************************)
(* Bounds of the model.                                                    *)
(***************************************************************************)
\* number of processes (invocations of main) in a behaviour of SpecRuns
MaxRuns == 3
\* number of tracker operations in a behaviour of SpecTracker
MaxOps == 3
\* number of fetch_transcript_sync calls in a behaviour of SpecFetch
MaxCalls == 3

(***************************************************************************)
(* Configuration: src/config/podcasts.py.                                  *)
(***************************************************************************)
PODCASTS == <<"lennys-podcast", "sub-club", "20vc">>

PodcastIds == {PODCASTS[i] : i \in 1..Len(PODCASTS)}

\* What main.py reads from a podcast object: the attributes
\* use_dropbox_for_detection and use_apple_for_detection.  "absent" is a
\* PodcastConfig as the dataclass declares it: it has no such attribute.
\* The other values are podcast objects that carry both attributes.
DetectionAttrs == {"absent", "none", "apple", "dropbox", "both"}

use_dropbox_for_detection(a) == a \in {"dropbox", "both"}

use_apple_for_detection(a) == a \in {"apple", "both"}

\* The list as podcasts.py builds it: no object has the attributes.
Shipped == [p \in PodcastIds |-> "absent"]

\* Two lists whose podcast objects carry the per-podcast detection flags
\* that main.py reads (every combination of the two flags occurs).
Flagged ==
  { [p \in PodcastIds |->
       IF p = "lennys-podcast" THEN "both"
       ELSE IF p = "sub-club" THEN "apple" ELSE "none"],
    [p \in PodcastIds |->
       IF p = "lennys-podcast" THEN "dropbox" ELSE "none"] }

\* get_all_podcasts(): the configurations checked
Deployments == {Shipped} \cup Flagged

(***************************************************************************)
(* The world: the episodes a detector can report as a show's latest (each  *)
(* detection reports any of them, or none), and the per-process seed of    *)
(* Python's str hash (PYTHONHASHSEED is random unless the environment pins *)
(* it).                                                                    *)
(***************************************************************************)
Episodes == {"A", "B"}

HashSeeds == {1, 2}

\* publication date of an episode, as a datetime (a positive number)
PubDate(e) == IF e = "A" THEN 1 ELSE 2

\* None where a datetime is optional
NoDate == 0

(***************************************************************************)
(* datetime.isoformat / datetime.fromisoformat, and JSON null.             *)
(***************************************************************************)
JsonNull == <<"null">>

isoformat(d) == <<"iso", d>>

fromisoformat(s) == s[2]

(***************************************************************************)
(* Episode identifiers.  An identifier is <<kind, episode, seed>>: the RSS *)
(* entry id, the episode page URL, "apple-" + hash(title) under the        *)
(* process's hash seed, "dropbox-" + filename, or a bare filename.         *)
(***************************************************************************)
NoGuid == <<"-", "-", 0>>

RssGuid(e) == <<"rss", e, 0>>

UrlGuid(e) == <<"url", e, 0>>

\* f"apple-{hash(title)}": hash of a str depends on the process's seed
AppleHashGuid(e, seed) == <<"apple-hash", e, seed>>

Filename(e) == <<"file", e, 0>>

DropboxGuid(e) == <<"dropbox-file", e, 0>>

(***************************************************************************)
(* EpisodeTracker: src/storage/tracker.py.                                 *)
(*                                                                         *)
(* _data is a dict podcast id -> entry; an entry is the dict that          *)
(* update_last_episode writes, or (after loading a hand-edited file) a     *)
(* dict that lacks the "guid" key.  shape "list" is _data after loading a  *)
(* file that holds the JSON value [].                                      *)
(***************************************************************************)
NoEntry ==
  [present |-> FALSE, keys |-> "-", guid |-> NoGuid, title |-> "-",
   published_date |-> JsonNull, processed_at |-> JsonNull]

\* an entry of a hand-edited file: an object without the "guid" key
PartialEntry ==
  [present |-> TRUE, keys |-> "partial", guid |-> NoGuid, title |-> "-",
   published_date |-> JsonNull, processed_at |-> JsonNull]

EmptyMap == [p \in PodcastIds |-> NoEntry]

EmptyData == [shape |-> "dict", m |-> EmptyMap]

ListData == [shape |-> "list", m |-> EmptyMap]

\* The tracker file: missing, a JSON object (m), the prefix of a JSON
\* document left by an interrupted write ("truncated", the empty file
\* included), bytes that are not UTF-8, a JSON number or null ("scalar"),
\* or the JSON array [] ("list").
MissingFile == [kind |-> "missing", m |-> EmptyMap]

JsonFile(m) == [kind |-> "json", m |-> m]

TruncatedFile == [kind |-> "truncated", m |-> EmptyMap]

\* EpisodeTracker._load: the in-memory state for a file, or an exception
\* that is not caught (UnicodeDecodeError from read(); TypeError from
\* len(self._data) in the log line when the JSON value is a number or null)
_load(f) ==
  CASE f.kind = "missing"   -> [raised |-> FALSE, data |-> EmptyData]
    [] f.kind = "json"      -> [raised |-> FALSE, data |-> [shape |-> "dict", m |-> f.m]]
    [] f.kind = "truncated" -> [raised |-> FALSE, data |-> EmptyData]
    [] f.kind = "list"      -> [raised |-> FALSE, data |-> ListData]
    [] f.kind = "badutf8"   -> [raised |-> TRUE, data |-> EmptyData]
    [] f.kind = "scalar"    -> [raised |-> TRUE, data |-> EmptyData]

\* json.dump(self._data, f, indent=2, default=str): the complete document
Serialize(data) ==
  IF data.shape = "dict" THEN JsonFile(data.m) ELSE [kind |-> "list", m |-> EmptyMap]

\* EpisodeTracker._save: open(file, "w") truncates the file, json.dump writes
\* the document in pieces, leaving the with-block closes it.  how is what
\* happens: the write completes ("ok"), open raises IOError ("open_fail"),
\* a write raises IOError after the truncation ("write_fail"), or the
\* process dies before open, after the truncation, or after the close.
SaveOutcomes ==
  {"ok", "open_fail", "write_fail", "crash_before", "crash_during", "crash_after"}

CrashOutcomes == {"crash_before", "crash_during", "crash_after"}

_save(data, f, how) ==
  [file   |-> CASE how \in {"ok", "crash_after"}     -> Serialize(data)
                [] how \in {"open_fail", "crash_before"} -> f
                [] how \in {"write_fail", "crash_during"} -> TruncatedFile,
   raised |-> how \in {"open_fail", "write_fail"},
   crash  |-> how \in CrashOutcomes]

\* EpisodeTracker.get_last_episode: the TrackedEpisode, or None (found =
\* FALSE) when the podcast has no entry or the entry raises KeyError
get_last_episode(data, podcast_id) ==
  LET e == data.m[podcast_id] IN
  IF data.shape # "dict" \/ ~e.present \/ e.keys # "full"
    THEN [found |-> FALSE, guid |-> NoGuid, title |-> "-",
          published_date |-> NoDate, processed_at |-> NoDate]
    ELSE [found |-> TRUE, guid |-> e.guid, title |-> e.title,
          published_date |-> IF e.published_date # JsonNull
                               THEN fromisoformat(e.published_date) ELSE NoDate,
          processed_at |-> IF e.processed_at # JsonNull
                               THEN fromisoformat(e.processed_at) ELSE NoDate]

\* EpisodeTracker.is_new_episode
is_new_episode_if_untracked(data, podcast_id, guid) ==
  ~get_last_episode(data, podcast_id).found

is_new_episode(data, podcast_id, guid) ==
  LET last == get_last_episode(data, podcast_id) IN
  IF ~last.found THEN TRUE ELSE last.guid # guid

\* EpisodeTracker.clear: one podcast's entry, or (podcast_id "-", None) all
clear(data, f, podcast_id, how) ==
  LET d == IF podcast_id = "-" THEN EmptyData
           ELSE IF data.shape = "dict"
                  THEN [data EXCEPT !.m[podcast_id] = NoEntry]
                  ELSE data
      s == _save(d, f, how)
  IN  [data |-> d, file |-> s.file, raised |-> s.raised, crash |-> s.crash]

\* the dict update_last_episode stores for a podcast
NewEntry(guid, title, published_date, now) ==
  [present |-> TRUE, keys |-> "full", guid |-> guid, title |-> title,
   published_date |-> IF published_date # NoDate
                        THEN isoformat(published_date) ELSE JsonNull,
   processed_at |-> isoformat(now)]

\* EpisodeTracker.update_last_episode: the assignment to self._data (a
\* TypeError when _data is a list), then _save
update_last_episode_fresh_dict(data, f, podcast_id, guid, title, published_date, now, how) ==
  IF data.shape # "dict"
    THEN [data |-> data, file |-> f, raised |-> TRUE, crash |-> FALSE]
    ELSE LET d == [data EXCEPT !.m = [EmptyMap EXCEPT ![podcast_id] =
                     NewEntry(guid, title, published_date, now)]]
             s == _save(d, f, how)
         IN  [data |-> d, file |-> s.file, raised |-> s.raised, crash |-> s.crash]

update_last_episode(data, f, podcast_id, guid, title, published_date, now, how) ==
  IF data.shape # "dict"
    THEN [data |-> data, file |-> f, raised |-> TRUE, crash |-> FALSE]
    ELSE LET d == [data EXCEPT !.m[podcast_id] =
                     NewEntry(guid, title, published_date, now)]
             s == _save(d, f, how)
         IN  [data |-> d, file |-> s.file, raised |-> s.raised, crash |-> s.crash]


(***************************************************************************)
(* State.                                                                  *)
(***************************************************************************)
VARIABLES
  pc,         \* "off" | "ready" | "running" | "exited" | "fatal" | "crashed"
  cfg,        \* the configured podcast objects: podcast id -> DetectionAttrs
  file,       \* the tracker file data/last_episodes.json
  data,       \* EpisodeTracker._data of the running process
  seed,       \* the running process's str-hash seed
  runs,       \* processes started so far; also the clock (utcnow)
  idx,        \* position of run()'s loop in PODCASTS
  errors,     \* run()'s errors list (podcast ids)
  ev,         \* what the latest _process_podcast call did
  attempted,  \* history: podcasts handed to _process_podcast in this run
  sent,       \* history: podcast id -> identifiers notified successfully
  uncollected,\* history: an exception of this run never reached errors
  errNotifs,  \* history: error notifications sent at the end of this run
  focus,      \* SpecRuns: the show whose detector reports episodes
  op,         \* SpecTracker: the latest tracker operation and its result
  fx,         \* SpecFetch: the scraper and its fetch_transcript_sync call
  strat       \* SpecAudio, SpecPage, SpecArchive: the strategy call in progress

vars == <<pc, cfg, file, data, seed, runs, idx, errors, ev, attempted,
          sent, uncollected, errNotifs, focus, op, fx, strat>>

NoEvent ==
  [p |-> "-", episode |-> "-", method |-> "-", exc |-> FALSE,
   searched |-> FALSE, detected |-> FALSE,
   guid |-> NoGuid, isnew |-> FALSE, llm |-> FALSE, notified |-> FALSE,
   updated |-> FALSE, ret |-> FALSE, sv |-> "-", unclosed |-> {},
   tr |-> "-", text |-> "-"]

(***************************************************************************)
(* Episode detection: src/services/rss_parser.py.  det is what the remote  *)
(* source gives: nothing, or the show's latest episode in one of the       *)
(* shapes the detector distinguishes.                                      *)
(***************************************************************************)
NoEpisode ==
  [found |-> FALSE, guid |-> NoGuid, track |-> NoGuid, title |-> "-",
   published_date |-> NoDate, has_url |-> FALSE]

\* RSSParser.fetch_latest_episode with _parse_entry: the entry id is the guid
fetch_latest_episode(e, det) ==
  IF det = "none" THEN NoEpisode
  ELSE [found |-> TRUE, guid |-> RssGuid(e), track |-> RssGuid(e), title |-> e,
        published_date |-> PubDate(e), has_url |-> TRUE]

\* RSSParser.fetch_latest_episode_from_apple with _extract_apple_episode_data
\* and _extract_episode_from_page_text: "link" is a first episode link with
\* an href, "link_nohref" one without, "text" the raw-text fallback
fetch_latest_episode_from_apple(e, det, sd) ==
  CASE det = "link" ->
         [found |-> TRUE, guid |-> UrlGuid(e), track |-> UrlGuid(e), title |-> e,
          published_date |-> PubDate(e), has_url |-> TRUE]
    [] det = "link_nohref" ->
         [found |-> TRUE, guid |-> AppleHashGuid(e, sd),
          track |-> AppleHashGuid(e, sd), title |-> e,
          published_date |-> NoDate, has_url |-> FALSE]
    [] det = "text" ->
         [found |-> TRUE, guid |-> AppleHashGuid(e, sd),
          track |-> AppleHashGuid(e, sd), title |-> e,
          published_date |-> NoDate, has_url |-> FALSE]
    [] OTHER -> NoEpisode

\* RSSParser.fetch_latest_episode_from_dropbox with
\* LennysTranscriptStrategy.detect_and_fetch_latest: the episode, and the
\* filename the orchestrator tracks it by
fetch_latest_episode_from_dropbox(e, det) ==
  IF det = "none" THEN NoEpisode
  ELSE [found |-> TRUE, guid |-> DropboxGuid(e), track |-> Filename(e), title |-> e,
        published_date |-> PubDate(e), has_url |-> TRUE]

RssOutcomes == {"none", "found"}

AppleOutcomes == {"none", "link", "link_nohref", "text"}

DetOutcomes == RssOutcomes \cup AppleOutcomes

\* what opening and closing the per-podcast browser context and page does
BrowserOutcomes ==
  {"ok", "new_context_raises", "new_page_raises", "page_close_raises",
   "context_close_raises"}

\* transcript acquisition: a transcript, one of at most 100 characters,
\* None, or an exception out of fetch_transcript_sync
TranscriptOutcomes == {"text", "short", "none", "raise"}

\* the outcomes of one _process_podcast call that the environment decides
Outcomes ==
  [det : DetOutcomes, br : BrowserOutcomes, tr : TranscriptOutcomes,
   llm : {"ok", "raise"}, tg : BOOLEAN, sv : SaveOutcomes]

(***************************************************************************)
(* PodcastSummaryBot: src/main.py.                                         *)
(***************************************************************************)
\* the detection branch _process_podcast takes (the browser of the run is up)
DetectionMethod(a) ==
  CASE a = "absent" -> "AttributeError"
    [] use_dropbox_for_detection(a) -> "dropbox"
    [] use_apple_for_detection(a) -> "apple"
    [] OTHER -> "rss"

\* Summarizer.generate_summary calls the LLM only for a transcript of more
\* than 100 characters
CallsLLMWithoutTranscript(tr) == tr \in {"text", "none"}

CallsLLM(tr) == tr = "text"

\* _process_new_episode: transcript, summary, notification; every exception
\* is caught and gives False
_process_new_episode(o) ==
  LET trRaised  == o.tr = "raise"
      llmCalled == ~trRaised /\ CallsLLM(o.tr)
      llmRaised == llmCalled /\ o.llm = "raise"
      sentNow   == ~trRaised /\ ~llmRaised
  IN  [llm |-> llmCalled,
       success |-> sentNow /\ o.tg,
       swallowed |-> trRaised \/ llmRaised \/ (sentNow /\ ~o.tg)]

\* "if not episode: return False", then "if not
\* self.tracker.is_new_episode(...): return False"
IsNewIgnoringNotFound(found, d, p, guid) == is_new_episode(d, p, guid)

IsNew(found, d, p, guid) == found /\ is_new_episode(d, p, guid)

\* the result of a call that ends before the detector has answered
Ended(d, f, method, exc) ==
  [method |-> method, exc |-> exc, searched |-> FALSE, detected |-> FALSE,
   guid |-> NoGuid,
   isnew |-> FALSE, llm |-> FALSE, notified |-> FALSE, updated |-> FALSE,
   saved |-> FALSE,
   ret |-> FALSE, swallowed |-> FALSE, crash |-> FALSE,
   data |-> d, file |-> f]

\* _process_podcast_via_dropbox
_process_podcast_via_dropbox(p, e, d, f, now, o) ==
  IF o.br \in {"new_context_raises", "new_page_raises"}
    THEN Ended(d, f, "dropbox", TRUE)
  ELSE
  LET ep      == fetch_latest_episode_from_dropbox(e, o.det)
      closeEx == o.br \in {"page_close_raises", "context_close_raises"}
      isnew   == IsNew(ep.found, d, p, ep.track)
      \* the archive file's text is the transcript
      llmCalled == isnew /\ CallsLLM(IF o.tr = "short" THEN "short" ELSE "text")
      llmRaised == llmCalled /\ o.llm = "raise"
      success == isnew /\ ~llmRaised /\ o.tg
      u       == update_last_episode(d, f, p, ep.track, ep.title,
                                     ep.published_date, now, o.sv)
  IN  [method |-> "dropbox", exc |-> closeEx, searched |-> TRUE,
       detected |-> ep.found,
       guid |-> ep.track, isnew |-> isnew, llm |-> llmCalled,
       notified |-> success, updated |-> success,
       saved |-> success /\ ~u.raised /\ ~u.crash,
       ret |-> success /\ ~u.raised /\ ~closeEx,
       swallowed |-> llmRaised \/ (isnew /\ ~llmRaised /\ ~o.tg)
                       \/ (success /\ u.raised),
       crash |-> success /\ u.crash,
       data |-> IF success THEN u.data ELSE d,
       file |-> IF success THEN u.file ELSE f]

\* _process_podcast
_process_podcast(p, a, e, sd, d, f, now, o) ==
  LET method == DetectionMethod(a) IN
  CASE method = "AttributeError" -> Ended(d, f, method, TRUE)
    [] method = "dropbox" -> _process_podcast_via_dropbox(p, e, d, f, now, o)
    [] OTHER ->
       IF method = "apple" /\ o.br # "ok"
         THEN Ended(d, f, method, TRUE)
       ELSE
       LET ep    == IF method = "apple"
                      THEN fetch_latest_episode_from_apple(e, o.det, sd)
                      ELSE fetch_latest_episode(e, o.det)
           isnew == IsNew(ep.found, d, p, ep.guid)
           r     == _process_new_episode(o)
           success == isnew /\ r.success
           u     == update_last_episode(d, f, p, ep.guid, ep.title,
                                        ep.published_date, now, o.sv)
       IN  [method |-> method, exc |-> success /\ u.raised, searched |-> TRUE,
            detected |-> ep.found, guid |-> ep.guid, isnew |-> isnew,
            llm |-> isnew /\ r.llm, notified |-> success, updated |-> success,
            saved |-> success /\ ~u.raised /\ ~u.crash,
            ret |-> success /\ ~u.raised,
            swallowed |-> isnew /\ r.swallowed,
            crash |-> success /\ u.crash,
            data |-> IF success THEN u.data ELSE d,
            file |-> IF success THEN u.file ELSE f]

\* run(): where the loop goes after a podcast, whether or not its
\* processing raised
AfterPodcast(i, raised) == i + 1


\* The outcomes that differ in effect, per detection branch: a field that
\* the branch never reaches keeps its first value.
Relevant(o) ==
  /\ (o.det = "none" => o.tr = "text")
  /\ (o.tr # "text" => o.llm = "ok")
  /\ (o.det = "none" \/ o.tr = "raise" \/ o.llm = "raise" => o.tg)
  /\ (o.det = "none" \/ o.tr = "raise" \/ o.llm = "raise" \/ ~o.tg => o.sv = "ok")

RssCases == {o \in Outcomes : o.det \in RssOutcomes /\ o.br = "ok" /\ Relevant(o)}

AppleCases ==
  {o \in Outcomes :
     /\ o.det \in AppleOutcomes
     /\ Relevant(o)
     /\ (o.br # "ok" => o.det = "none")}

DropboxCases ==
  {o \in Outcomes :
     /\ o.det \in RssOutcomes
     /\ o.tr \in {"text", "short"}
     /\ Relevant(o)
     /\ (o.br \in {"new_context_raises", "new_page_raises"} => o.det = "none")}

CasesFor(method) ==
  CASE method = "rss" -> RssCases
    [] method = "apple" -> AppleCases
    [] method = "dropbox" -> DropboxCases
    [] OTHER -> {[det |-> "none", br |-> "ok", tr |-> "text", llm |-> "ok",
                  tg |-> TRUE, sv |-> "ok"]}


\* SpecRuns: no fault but a failed delivery; only the focus show's
\* detector reports an episode
CleanCasesFor(method, p, f) ==
  {o \in CasesFor(method) :
     /\ o.br = "ok" /\ o.tr = "text" /\ o.llm = "ok" /\ o.sv = "ok"
     /\ (p # f => o.det = "none")}

\* the identifier a clean earlier cycle stored for episode e of a podcast
StoredGuid(a, e) ==
  CASE DetectionMethod(a) = "dropbox" -> Filename(e)
    [] DetectionMethod(a) = "apple" -> UrlGuid(e)
    [] OTHER -> RssGuid(e)

\* Tracker files a process can find: none, or the file an earlier process
\* wrote at time 0 after it processed episode "A" of every show.  (No
\* process writes an entry for a podcast object that lacks the detection
\* attributes.)
InitialFiles(c) ==
  {MissingFile} \cup
  (IF \E p \in PodcastIds : c[p] = "absent" THEN {}
   ELSE {JsonFile([p \in PodcastIds |->
                     NewEntry(StoredGuid(c[p], "A"), "A", PubDate("A"), 0)])})

NoOp ==
  [name |-> "-", p |-> "-", guid |-> NoGuid, how |-> "-", result |-> FALSE,
   raised |-> FALSE, old |-> MissingFile, before |-> EmptyData, n |-> 0]

NoFetch ==
  [pc |-> "idle", p |-> "-", browser |-> "none", playwright |-> "none",
   temp |-> FALSE, contexts |-> 0, pages |-> 0, browsers |-> 0,
   playwrights |-> 0, raising |-> FALSE, out |-> "-", calls |-> 0]

\* no strategy call yet
NoCall == [pc |-> "idle"]

InitCommon ==
  /\ pc = "off"
  /\ data = EmptyData
  /\ seed = 1
  /\ runs = 0
  /\ idx = 1
  /\ errors = <<>>
  /\ ev = NoEvent
  /\ attempted = <<>>
  /\ sent = [p \in PodcastIds |-> {}]
  /\ uncollected = FALSE
  /\ errNotifs = 0
  /\ op = NoOp
  /\ fx = NoFetch

Init ==
  /\ InitCommon
  /\ strat = NoCall
  /\ cfg \in Deployments
  /\ file \in InitialFiles(cfg)
  /\ focus = "-"

\* main(): a new process; PodcastSummaryBot.__init__ builds the tracker,
\* whose constructor loads the file.  An exception ends main with "Fatal
\* error" and exit code 1.
StartProcess(limit) ==
  /\ pc = "off"
  /\ runs < limit
  /\ runs' = runs + 1
  /\ \E sd \in HashSeeds : seed' = sd
  /\ LET l == _load(file) IN
       /\ pc' = IF l.raised THEN "fatal" ELSE "ready"
       /\ data' = l.data
  /\ UNCHANGED <<cfg, file, idx, errors, ev, attempted, sent,
                 uncollected, errNotifs, focus, op, fx, strat>>

Start == StartProcess(1)

\* run(): TranscriptScraper.__enter__ starts the run's browser, or raises
RunBegin ==
  /\ pc = "ready"
  /\ \E launched \in BOOLEAN : pc' = IF launched THEN "running" ELSE "fatal"
  /\ UNCHANGED <<cfg, file, data, seed, runs, idx, errors, ev, attempted,
                 sent, uncollected, errNotifs, focus, op, fx, strat>>

\* run(): one iteration of the loop over self.podcasts, the environment's
\* part of it drawn from cases
LoopIteration(p, cases) ==
  \E e \in Episodes, o \in cases :
    LET r == _process_podcast(p, cfg[p], e, seed, data, file, runs, o) IN
      /\ data' = r.data
      /\ file' = r.file
      /\ pc' = IF r.crash THEN "crashed" ELSE "running"
      /\ idx' = AfterPodcast(idx, r.exc)
      /\ errors' = IF r.exc THEN Append(errors, p) ELSE errors
      /\ attempted' = Append(attempted, p)
      /\ sent' = IF r.notified
                   THEN [sent EXCEPT ![p] = @ \cup {r.guid}] ELSE sent
      /\ uncollected' = (uncollected \/ r.swallowed)
      /\ ev' = [p |-> p, episode |-> IF r.detected THEN e ELSE "-",
                method |-> r.method, exc |-> r.exc, searched |-> r.searched,
                detected |-> r.detected, guid |-> r.guid, isnew |-> r.isnew,
                llm |-> r.llm, notified |-> r.notified, updated |-> r.updated,
                ret |-> r.ret, sv |-> IF r.updated THEN o.sv ELSE "-",
                \* "context = ...new_context(...)" and "page =
                \* context.new_page()" stand before the try, and the
                \* finally runs "page.close()" then "context.close()":
                \* what was opened and never had its close() called
                unclosed |->
                  IF r.method \in {"dropbox", "apple"}
                    THEN CASE o.br = "new_page_raises" -> {"context"}
                           [] o.br = "page_close_raises" -> {"context"}
                           [] OTHER -> {}
                    ELSE {},
                \* _process_new_episode: what fetch_transcript_sync gave
                \* for the new episode, and the summary handed to
                \* send_episode_summary_sync
                tr |-> IF r.isnew /\ r.method \in {"rss", "apple"}
                         THEN o.tr ELSE "-",
                text |-> CASE ~r.isnew -> "-"
                           [] r.method \in {"rss", "apple"} /\ o.tr = "raise" -> "-"
                           [] r.llm /\ o.llm = "raise" -> "-"
                           [] r.llm -> "summary"
                           [] OTHER -> "Transcript not found"]
      /\ UNCHANGED <<cfg, seed, runs, errNotifs, focus, op, fx, strat>>

ProcessPodcast ==
  /\ pc = "running"
  /\ idx <= Len(PODCASTS)
  /\ LoopIteration(PODCASTS[idx], CasesFor(DetectionMethod(cfg[PODCASTS[idx]])))

\* run(): the loop is over; TranscriptScraper.__exit__ closes the browser
\* (an exception of it leaves run), then the collected errors, if any, go
\* out in one _send_error_notification call
RunEnd ==
  /\ pc = "running"
  /\ idx > Len(PODCASTS)
  /\ \E closed \in BOOLEAN :
       /\ pc' = IF closed THEN "exited" ELSE "fatal"
       /\ errNotifs' = IF closed /\ errors # <<>> THEN 1 ELSE 0
  /\ UNCHANGED <<cfg, file, data, seed, runs, idx, errors, ev, attempted,
                 sent, uncollected, focus, op, fx, strat>>

\* the process is gone: main returned its exit code, or the crash ended it
Exit ==
  /\ pc \in {"exited", "fatal", "crashed"}
  /\ pc' = "off"
  /\ data' = EmptyData
  /\ seed' = 1
  /\ idx' = 1
  /\ errors' = <<>>
  /\ attempted' = <<>>
  /\ uncollected' = FALSE
  /\ errNotifs' = 0
  /\ ev' = NoEvent
  /\ UNCHANGED <<cfg, file, runs, sent, focus, op, fx, strat>>

\* main() with "force <podcast_id>": force_process_podcast opens the
\* scraper and _force_process_podcast_internal detects, summarises and
\* notifies without a tracker call; an exception leaves through the with
\* block to main's "Fatal error".  strat records the call; clean says that
\* the browser started and no service the call consulted failed (episode e
\* is published).
ForceProcess ==
  /\ pc = "ready"
  /\ strat.pc = "idle"
  /\ \E p \in PodcastIds \cup {"unknown"}, launched \in BOOLEAN, e \in Episodes :
     LET method == IF p \in PodcastIds /\ launched
                     THEN DetectionMethod(cfg[p]) ELSE "-"
     IN
     \E o \in {c \in CasesFor(method) : c.sv = "ok"} :
       LET ep == CASE method = "dropbox" -> fetch_latest_episode_from_dropbox(e, o.det)
                   [] method = "apple" -> fetch_latest_episode_from_apple(e, o.det, seed)
                   [] method = "rss" -> fetch_latest_episode(e, o.det)
                   [] OTHER -> NoEpisode
           opened == method \in {"rss"} \/
                     (method \in {"dropbox", "apple"}
                        /\ o.br \notin {"new_context_raises", "new_page_raises"})
           closeEx == method \in {"dropbox", "apple"}
                        /\ o.br \in {"page_close_raises", "context_close_raises"}
           found == opened /\ ep.found
           llmRaised == found /\ CallsLLM(IF o.tr = "short" THEN "short" ELSE "text")
                          /\ o.llm = "raise"
           r == _process_new_episode(o)
           notified == IF method = "dropbox" THEN found /\ ~llmRaised /\ o.tg
                       ELSE found /\ ~closeEx /\ r.success
           raised == \/ p \in PodcastIds /\ ~launched
                     \/ method = "AttributeError"
                     \/ method \in {"dropbox", "apple"} /\ o.br # "ok"
                     \/ method = "dropbox" /\ llmRaised
       IN  /\ strat' = [pc |-> "forced", p |-> p, method |-> method,
                        clean |-> /\ p \in PodcastIds /\ launched
                                  /\ \/ method = "AttributeError"
                                     \/ /\ o.det # "none" /\ o.br = "ok"
                                        /\ o.tr = "text" /\ o.llm = "ok" /\ o.tg,
                        episode |-> e, guid |-> ep.track,
                        stored |-> ep.found /\ ~is_new_episode(data, p, ep.track),
                        notified |-> notified, raised |-> raised,
                        before |-> data, old |-> file]
           /\ sent' = IF notified THEN [sent EXCEPT ![p] = @ \cup {ep.track}]
                      ELSE sent
           /\ pc' = IF raised THEN "fatal" ELSE "exited"
  /\ UNCHANGED <<cfg, file, data, seed, runs, idx, errors, ev, attempted,
                 uncollected, errNotifs, focus, op, fx>>

Next == Start \/ RunBegin \/ ProcessPodcast \/ RunEnd \/ Exit \/ ForceProcess

\* One process: main() performs one run, every outcome of every step.
Spec == Init /\ [][Next]_vars

(***************************************************************************)
(* SpecRuns: MaxRuns processes one after the other, as a scheduler starts  *)
(* them; the detector of one show reports episodes, in any order.          *)
(***************************************************************************)
InitRuns ==
  /\ InitCommon
  /\ strat = NoCall
  /\ cfg \in Deployments
  /\ file = MissingFile
  /\ focus \in PodcastIds

StartRun == StartProcess(MaxRuns)

ProcessPodcastRuns ==
  /\ pc = "running"
  /\ idx <= Len(PODCASTS)
  /\ LoopIteration(PODCASTS[idx],
                   CleanCasesFor(DetectionMethod(cfg[PODCASTS[idx]]),
                                 PODCASTS[idx], focus))

NextRuns == StartRun \/ RunBegin \/ ProcessPodcastRuns \/ RunEnd \/ Exit

SpecRuns == InitRuns /\ [][NextRuns]_vars

(***************************************************************************)
(* SpecTracker: one EpisodeTracker after the other on the same file, each  *)
(* built over whatever the file holds and then called at most MaxOps times *)
(* in all, with every outcome of every write.                              *)
(***************************************************************************)
TrackerGuids == {RssGuid(e) : e \in Episodes}

\* the file before the first tracker: missing, written by an earlier
\* tracker, edited by hand (an entry without "guid"), or damaged
TrackerFiles ==
  { MissingFile,
    JsonFile([EmptyMap EXCEPT !["lennys-podcast"] =
                NewEntry(RssGuid("A"), "A", PubDate("A"), 0)]),
    JsonFile([EmptyMap EXCEPT !["sub-club"] = PartialEntry]),
    TruncatedFile,
    [kind |-> "badutf8", m |-> EmptyMap],
    [kind |-> "scalar", m |-> EmptyMap],
    [kind |-> "list", m |-> EmptyMap] }

InitTracker ==
  /\ InitCommon
  /\ strat = NoCall
  /\ cfg = Shipped
  /\ file \in TrackerFiles
  /\ focus = "-"

\* EpisodeTracker.__init__: _data = {}, then _load
TrackerNew ==
  /\ pc = "off"
  /\ op.n < MaxOps
  /\ LET l == _load(file) IN
       /\ pc' = IF l.raised THEN "fatal" ELSE "ready"
       /\ data' = l.data
       /\ op' = [name |-> "load", p |-> "-", guid |-> NoGuid, how |-> "-",
                 result |-> FALSE, raised |-> l.raised, old |-> file,
                 before |-> data, n |-> op.n + 1]
  /\ UNCHANGED <<cfg, file, seed, runs, idx, errors, ev, attempted, sent,
                 uncollected, errNotifs, focus, fx, strat>>

\* a call of is_new_episode
TrackerIsNew ==
  /\ pc = "ready"
  /\ op.n < MaxOps
  /\ \E p \in PodcastIds, g \in TrackerGuids :
       op' = [name |-> "is_new", p |-> p, guid |-> g, how |-> "-",
              result |-> is_new_episode(data, p, g), raised |-> FALSE,
              old |-> file, before |-> data, n |-> op.n + 1]
  /\ UNCHANGED <<pc, cfg, file, data, seed, runs, idx, errors, ev, attempted,
                 sent, uncollected, errNotifs, focus, fx, strat>>

\* a call of update_last_episode; utcnow is the count of operations
TrackerUpdate ==
  /\ pc = "ready"
  /\ op.n < MaxOps
  /\ \E p \in PodcastIds, e \in Episodes, how \in SaveOutcomes :
       LET u == update_last_episode(data, file, p, RssGuid(e), e, PubDate(e),
                                    op.n + 1, how)
       IN  /\ data' = u.data
           /\ file' = u.file
           /\ pc' = IF u.crash THEN "crashed" ELSE "ready"
           /\ op' = [name |-> "update", p |-> p, guid |-> RssGuid(e),
                     how |-> how, result |-> FALSE, raised |-> u.raised,
                     old |-> file, before |-> data, n |-> op.n + 1]
  /\ UNCHANGED <<cfg, seed, runs, idx, errors, ev, attempted, sent,
                 uncollected, errNotifs, focus, fx, strat>>

\* a call of clear, for one podcast or for all
TrackerClear ==
  /\ pc = "ready"
  /\ op.n < MaxOps
  /\ \E p \in PodcastIds \cup {"-"}, how \in SaveOutcomes :
       LET c == clear(data, file, p, how)
       IN  /\ data' = c.data
           /\ file' = c.file
           /\ pc' = IF c.crash THEN "crashed" ELSE "ready"
           /\ op' = [name |-> "clear", p |-> p, guid |-> NoGuid,
                     how |-> how, result |-> FALSE, raised |-> c.raised,
                     old |-> file, before |-> data, n |-> op.n + 1]
  /\ UNCHANGED <<cfg, seed, runs, idx, errors, ev, attempted, sent,
                 uncollected, errNotifs, focus, fx, strat>>

\* the process that held the tracker ends, or has crashed
TrackerGone ==
  /\ pc \in {"ready", "fatal", "crashed"}
  /\ pc' = "off"
  /\ data' = EmptyData
  /\ op' = [NoOp EXCEPT !.n = op.n]
  /\ UNCHANGED <<cfg, file, seed, runs, idx, errors, ev, attempted, sent,
                 uncollected, errNotifs, focus, fx, strat>>

NextTracker ==
  TrackerNew \/ TrackerIsNew \/ TrackerUpdate \/ TrackerClear \/ TrackerGone

SpecTracker == InitTracker /\ [][NextTracker]_vars

(***************************************************************************)
(* SpecFetch: TranscriptScraper.fetch_transcript_sync, statement by        *)
(* statement, on a scraper that was entered as a context manager (it holds *)
(* the run's browser) or was not (it holds none).  Every browser operation *)
(* either succeeds or raises.  fx.contexts, fx.pages, fx.browsers and      *)
(* fx.playwrights count what the call in progress opened and has not       *)
(* closed; fx.raising is an exception on its way out of the call.          *)
(***************************************************************************)
NeedsBrowser == {"sub-club", "lennys-podcast"}

InitFetch ==
  /\ InitCommon
  /\ strat = NoCall
  /\ cfg = Shipped
  /\ file = MissingFile
  /\ focus = "-"

OtherVars ==
  <<pc, cfg, file, data, seed, runs, idx, errors, ev, attempted, sent,
    uncollected, errNotifs, focus, op, strat>>

\* the call returns, or the exception leaves it
Returned(f, raising) ==
  [f EXCEPT !.pc = "idle", !.raising = raising,
            !.out = IF raising THEN "raise" ELSE f.out,
            !.calls = f.calls + 1]

\* where an exception raised inside _fetch_with_browser goes: to the
\* finally block of the temporary-browser branch, or out of the call
Unwind(f) ==
  IF f.temp THEN [f EXCEPT !.pc = "browser_close", !.raising = TRUE]
  ELSE Returned(f, TRUE)

\* "with TranscriptScraper() as scraper": __enter__ before the first call
scraper_enter ==
  /\ fx.pc = "idle" /\ fx.calls = 0 /\ fx.browser = "none"
  /\ fx' = [fx EXCEPT !.browser = "run", !.playwright = "run"]
  /\ UNCHANGED OtherVars

\* fetch_transcript_sync is called: the strategy lookup and the branch
fetch_transcript_sync ==
  /\ fx.pc = "idle"
  /\ fx.calls < MaxCalls
  /\ \E p \in PodcastIds \cup {"unknown"} :
       LET f == [fx EXCEPT !.p = p, !.temp = FALSE, !.contexts = 0,
                           !.pages = 0, !.browsers = 0, !.playwrights = 0,
                           !.raising = FALSE, !.out = "-"]
       IN  fx' = CASE p = "unknown" -> Returned([f EXCEPT !.out = "none"], FALSE)
                   [] p \in NeedsBrowser /\ fx.browser = "none" ->
                        [f EXCEPT !.pc = "start_playwright", !.temp = TRUE]
                   [] p \in NeedsBrowser -> [f EXCEPT !.pc = "new_context"]
                   [] OTHER -> [f EXCEPT !.pc = "whisper"]
  /\ UNCHANGED OtherVars

\* self._playwright = sync_playwright().start()
sync_playwright_start ==
  /\ fx.pc = "start_playwright"
  /\ \E ok \in BOOLEAN :
       fx' = IF ok THEN [fx EXCEPT !.pc = "launch", !.playwright = "temp",
                                   !.playwrights = @ + 1]
             ELSE Returned(fx, TRUE)
  /\ UNCHANGED OtherVars

\* self._browser = self._playwright.chromium.launch(...), before the try
chromium_launch ==
  /\ fx.pc = "launch"
  /\ \E ok \in BOOLEAN :
       fx' = IF ok THEN [fx EXCEPT !.pc = "new_context", !.browser = "temp",
                                   !.browsers = @ + 1]
             ELSE Returned(fx, TRUE)
  /\ UNCHANGED OtherVars

\* _fetch_with_browser: context = self._browser.new_context(...); a handle
\* to a browser that is closed ("stale") can only raise
new_context ==
  /\ fx.pc = "new_context"
  /\ \E ok \in BOOLEAN :
       fx' = IF ok /\ fx.browser # "stale"
               THEN [fx EXCEPT !.pc = "new_page", !.contexts = @ + 1]
               ELSE Unwind(fx)
  /\ UNCHANGED OtherVars

\* _fetch_with_browser: page = context.new_page(), before the try
new_page ==
  /\ fx.pc = "new_page"
  /\ \E ok \in BOOLEAN :
       fx' = IF ok THEN [fx EXCEPT !.pc = "strategy", !.pages = @ + 1]
             ELSE Unwind(fx)
  /\ UNCHANGED OtherVars

\* _fetch_with_browser: strategy.fetch_transcript(episode, podcast, page);
\* the finally block runs whatever it does
strategy_fetch_transcript ==
  /\ fx.pc = "strategy"
  /\ \E out \in {"text", "none", "raise"} :
       fx' = [fx EXCEPT !.pc = "page_close", !.out = out,
                        !.raising = (out = "raise")]
  /\ UNCHANGED OtherVars

\* finally: page.close()
page_close ==
  /\ fx.pc = "page_close"
  /\ \E ok \in BOOLEAN :
       fx' = IF ok THEN [fx EXCEPT !.pc = "context_close", !.pages = @ - 1]
             ELSE Unwind(fx)
  /\ UNCHANGED OtherVars

\* finally: context.close(), the last statement of _fetch_with_browser
context_close ==
  /\ fx.pc = "context_close"
  /\ \E ok \in BOOLEAN :
       fx' = IF ~ok THEN Unwind(fx)
             ELSE LET f == [fx EXCEPT !.contexts = @ - 1] IN
                  IF f.temp THEN [f EXCEPT !.pc = "browser_close"]
                  ELSE Returned(f, f.raising)
  /\ UNCHANGED OtherVars

\* temporary branch, finally: self._browser.close(); a browser that closes
\* takes its contexts and pages with it
browser_close ==
  /\ fx.pc = "browser_close"
  /\ \E ok \in BOOLEAN :
       fx' = IF ok THEN [fx EXCEPT !.pc = "playwright_stop", !.browsers = @ - 1,
                                   !.contexts = 0, !.pages = 0]
             ELSE Returned(fx, TRUE)
  /\ UNCHANGED OtherVars

\* temporary branch, finally: self._playwright.stop(), then both handles
\* are set to None
playwright_stop ==
  /\ fx.pc = "playwright_stop"
  /\ \E ok \in BOOLEAN :
       fx' = IF ok THEN Returned([fx EXCEPT !.playwrights = @ - 1,
                                            !.browser = "none",
                                            !.playwright = "none"], fx.raising)
             ELSE Returned([fx EXCEPT !.browser = "stale"], TRUE)
  /\ UNCHANGED OtherVars

\* strategy.fetch_transcript(episode, podcast, None): no browser involved
strategy_fetch_without_page ==
  /\ fx.pc = "whisper"
  /\ \E out \in {"text", "none", "raise"} :
       fx' = Returned([fx EXCEPT !.out = out], out = "raise")
  /\ UNCHANGED OtherVars

NextFetch ==
  \/ scraper_enter \/ fetch_transcript_sync \/ sync_playwright_start
  \/ chromium_launch \/ new_context \/ new_page \/ strategy_fetch_transcript
  \/ page_close \/ context_close \/ browser_close \/ playwright_stop
  \/ strategy_fetch_without_page

SpecFetch == InitFetch /\ [][NextFetch]_vars

(***************************************************************************)
(* SpecAudio: TwentyVCTranscriptStrategy.fetch_transcript with             *)
(* _split_audio, statement by statement, on one audio asset.  Sizes are in *)
(* MB and times in seconds.  An asset is its size, its duration and what   *)
(* the encoder writes per 100 seconds of exported audio.                   *)
(***************************************************************************)
MAX_FILE_SIZE == 25

TARGET_CHUNK_SIZE == 20

\* "Ensure minimum chunk duration of 1 minute"
MinChunkDuration == 60

\* fixed: what the encoder writes into every exported file, whatever the
\* length of the audio in it
Assets ==
  { [size |-> 25, duration |-> 1500, per100 |-> 2, fixed |-> 0],
    [size |-> 26, duration |-> 1560, per100 |-> 2, fixed |-> 0],
    [size |-> 60, duration |-> 3000, per100 |-> 2, fixed |-> 0],
    [size |-> 30, duration |-> 1500, per100 |-> 3, fixed |-> 0],
    [size |-> 60, duration |-> 120, per100 |-> 50, fixed |-> 0],
    [size |-> 60, duration |-> 120, per100 |-> 2, fixed |-> 26] }

\* the exports one call is followed through
MaxExports == 12

\* os.path.getsize of an exported chunk of the given length
ExportedSize(a, length) == a.fixed + (length * a.per100 + 99) \div 100

\* chunk_duration_ms = max(int(TARGET_CHUNK_SIZE / bytes_per_ms), 60 * 1000)
InitialChunkDuration(a) ==
  LET d == (TARGET_CHUNK_SIZE * a.duration) \div a.size
  IN  IF d > MinChunkDuration THEN d ELSE MinChunkDuration

\* chunk_duration_ms = int(chunk_duration_ms * 0.7)
Shrunk(d) == (d * 7) \div 10

\* "if file_size <= self.MAX_FILE_SIZE": transcribe the download directly
Direct(size) == size <= MAX_FILE_SIZE

\* "if chunk_size > self.MAX_FILE_SIZE": the chunk is dropped and redone
TooLargeAboveTarget(size) == size > MAX_FILE_SIZE + TARGET_CHUNK_SIZE

TooLarge(size) == size > MAX_FILE_SIZE

(***************************************************************************)
(* Texts are sequences of characters: 0 is a space, i > 0 a word spoken in *)
(* segment i.  NoText is None.                                             *)
(***************************************************************************)
NoText == <<-1>>

\* what _transcribe_file can return for segment i: None (the request
\* raised), "", " ", a word, a word followed by a space
SegmentTexts(i) == {NoText, <<>>, <<0>>, <<i>>, <<i, 0>>}

\* "if chunk_transcript": neither None nor ""
Truthy(t) == t # NoText /\ t # <<>>

RECURSIVE Join(_)
\* ' '.join(transcripts)
Join(ts) ==
  IF Len(ts) = 0 THEN <<>>
  ELSE IF Len(ts) = 1 THEN ts[1]
  ELSE ts[1] \o <<0>> \o Join(Tail(ts))

RECURSIVE Collapse(_)
\* re.sub(r' {2,}', ' ', text)
Collapse(t) ==
  IF Len(t) < 2 THEN t
  ELSE IF t[1] = 0 /\ t[2] = 0 THEN Collapse(Tail(t))
  ELSE <<t[1]>> \o Collapse(Tail(t))

RECURSIVE LStrip(_)
LStrip(t) == IF Len(t) > 0 /\ t[1] = 0 THEN LStrip(Tail(t)) ELSE t

RECURSIVE RStrip(_)
RStrip(t) ==
  IF Len(t) > 0 /\ t[Len(t)] = 0 THEN RStrip(SubSeq(t, 1, Len(t) - 1)) ELSE t

\* _clean_transcript: "" for "", else collapse runs of spaces and strip
_clean_transcript(t) == IF t = <<>> THEN <<>> ELSE RStrip(LStrip(Collapse(t)))

\* transcripts.append(chunk_transcript) for a truthy one
KeepPrepending(transcripts, t) == IF Truthy(t) THEN <<t>> \o transcripts ELSE transcripts

Keep(transcripts, t) == IF Truthy(t) THEN Append(transcripts, t) ELSE transcripts

\* the end of the chunk loop: the cleaned join, or None
ChunkedResult(transcripts) ==
  IF Len(transcripts) > 0 THEN _clean_transcript(Join(transcripts)) ELSE NoText

\* strat during an audio call: tmp says the download's temporary file
\* exists, disk holds the chunk files that exist, local is _split_audio's
\* chunk_paths and chunk_paths fetch_transcript's; used, submitted and texts
\* are histories: the target durations exports ran with, the sizes of the
\* files handed to _transcribe_file, what it returned per chunk.
AudioCall(a) ==
  [pc |-> "download", asset |-> a, tmp |-> FALSE, disk |-> {}, made |-> 0,
   target |-> 0, start |-> 0, local |-> <<>>, chunk_paths |-> <<>>,
   used |-> <<>>, submitted |-> <<>>, texts |-> <<>>, transcripts |-> <<>>,
   result |-> NoText]

AudioVars ==
  <<pc, cfg, file, data, seed, runs, idx, errors, ev, attempted, sent,
    uncollected, errNotifs, focus, op, fx>>

InitAudio ==
  /\ InitCommon
  /\ cfg = Shipped
  /\ file = MissingFile
  /\ focus = "-"
  /\ strat = NoCall

\* fetch_transcript is called; without an audio URL it returns None
audio_fetch_transcript ==
  /\ strat.pc = "idle"
  /\ \E a \in Assets, has_url \in BOOLEAN :
       strat' = IF has_url THEN AudioCall(a)
                ELSE [AudioCall(a) EXCEPT !.pc = "done"]
  /\ UNCHANGED AudioVars

\* tempfile.mkstemp, then the download into the file; an exception of the
\* download goes to "except Exception: return None"
audio_download ==
  /\ strat.pc = "download"
  /\ \E ok \in BOOLEAN :
       strat' = [strat EXCEPT !.tmp = TRUE,
                              !.pc = IF ~ok THEN "finally"
                                     ELSE IF Direct(strat.asset.size)
                                            THEN "direct" ELSE "split"]
  /\ UNCHANGED AudioVars

\* return self._transcribe_file(tmp_path)
audio_transcribe_direct ==
  /\ strat.pc = "direct"
  /\ \E t \in SegmentTexts(1) :
       strat' = [strat EXCEPT !.pc = "finally",
                              !.submitted = Append(@, strat.asset.size),
                              !.result = t]
  /\ UNCHANGED AudioVars

\* _split_audio up to the loop: AudioSegment.from_mp3 and the chunk
\* duration; an exception gives [] and fetch_transcript returns None
audio_split_load ==
  /\ strat.pc = "split"
  /\ \E ok \in BOOLEAN :
       strat' = IF ok
                  THEN [strat EXCEPT !.pc = "export",
                                     !.target = InitialChunkDuration(strat.asset)]
                  ELSE [strat EXCEPT !.pc = "finally"]
  /\ UNCHANGED AudioVars

\* _split_audio, one iteration of "while start_ms < duration_ms": export,
\* size check, then drop-and-shrink or append; an exception of the export
\* makes _split_audio return [] with its own chunk_paths forgotten
audio_export ==
  /\ strat.pc = "export"
  /\ strat.start < strat.asset.duration
  /\ strat.made < MaxExports
  /\ \E ok \in BOOLEAN :
       LET a     == strat.asset
           end   == IF strat.start + strat.target < a.duration
                      THEN strat.start + strat.target ELSE a.duration
           size  == ExportedSize(a, end - strat.start)
           id    == strat.made + 1
           chunk == [id |-> id, size |-> size, from |-> strat.start, to |-> end]
       IN  strat' =
             IF ~ok THEN [strat EXCEPT !.pc = "finally"]
             ELSE IF TooLarge(size)
               THEN [strat EXCEPT !.made = id,
                                  !.used = Append(@, strat.target),
                                  !.target = Shrunk(strat.target)]
             ELSE [strat EXCEPT !.made = id,
                                !.used = Append(@, strat.target),
                                !.disk = @ \cup {id},
                                !.local = Append(@, chunk),
                                !.start = end,
                                !.chunk_paths = IF end < a.duration THEN <<>>
                                                ELSE Append(strat.local, chunk),
                                !.pc = IF end < a.duration THEN "export"
                                       ELSE "transcribe"]
  /\ UNCHANGED AudioVars

\* one iteration of "for i, chunk_path in enumerate(chunk_paths)", and
\* after the last one the join
audio_transcribe_chunk ==
  /\ strat.pc = "transcribe"
  /\ Len(strat.texts) < Len(strat.chunk_paths)
  /\ LET i == Len(strat.texts) + 1 IN
     \E t \in SegmentTexts(i) :
       LET ts == Keep(strat.transcripts, t) IN
       strat' = [strat EXCEPT
                   !.submitted = Append(@, strat.chunk_paths[i].size),
                   !.texts = Append(@, t),
                   !.transcripts = ts,
                   !.result = IF i = Len(strat.chunk_paths)
                                THEN ChunkedResult(ts) ELSE NoText,
                   !.pc = IF i = Len(strat.chunk_paths)
                            THEN "finally" ELSE "transcribe"]
  /\ UNCHANGED AudioVars

\* finally: unlink tmp_path and every path in fetch_transcript's chunk_paths
audio_finally ==
  /\ strat.pc = "finally"
  /\ strat' = [strat EXCEPT
                 !.pc = "done",
                 !.tmp = FALSE,
                 !.disk = @ \ {strat.chunk_paths[k].id :
                                 k \in 1..Len(strat.chunk_paths)}]
  /\ UNCHANGED AudioVars

NextAudio ==
  \/ audio_fetch_transcript \/ audio_download \/ audio_transcribe_direct
  \/ audio_split_load \/ audio_export \/ audio_transcribe_chunk
  \/ audio_finally

SpecAudio == InitAudio /\ [][NextAudio]_vars

\* the call runs on: no statement of it waits for anything
SpecAudioFair == SpecAudio /\ WF_vars(NextAudio)

(***************************************************************************)
(* SubClubTranscriptStrategy: the page extractor.  A title or link text is *)
(* the sequence of its whitespace-separated words; no word of the          *)
(* vocabulary occurs inside another, so Python's substring test on the     *)
(* normalised strings is the test for a contiguous run of words.           *)
(***************************************************************************)
NoUrl == "None"
ShowUrl == "https://podcasts.apple.com/us/podcast/show/id1"
EpisodeUrl(i) == IF i = 1 THEN "https://podcasts.apple.com/us/podcast/show/id1?i=1"
                 ELSE "https://podcasts.apple.com/us/podcast/show/id1?i=2"
SiteUrl == "https://example.com/episodes/1"

\* 'apple.com' in url
IsApple(url) == url \in {ShowUrl, EpisodeUrl(1), EpisodeUrl(2)}

\* s.lower()
Lower(w) ==
  CASE w = "How" -> "how" [] w = "Scale" -> "scale" [] w = "Jane" -> "jane"
    [] w = "Doe" -> "doe" [] w = "The" -> "the" [] w = "Growth" -> "growth"
    [] w = "Playbook" -> "playbook" [] w = "John" -> "john"
    [] w = "Roe" -> "roe" [] w = ".TXT" -> ".txt" [] OTHER -> w

\* normalize: lower case; ' '.join(s.split()) is the word sequence itself
normalize(s) == [i \in 1..Len(s) |-> Lower(s[i])]

\* a in b
Contains(a, b) ==
  \E i \in 0..(Len(b) - Len(a)) : SubSeq(b, i + 1, i + Len(a)) = a

\* s.split()[:n]
Take(s, n) == SubSeq(s, 1, IF Len(s) < n THEN Len(s) ELSE n)

skip_words ==
  {"the", "a", "an", "and", "or", "with", "by", "for", "to", "of", "in", "on"}

_titles_match(title1, title2) ==
  LET t1 == normalize(title1)
      t2 == normalize(title2)
      sig(t) == Take(SelectSeq(t, LAMBDA w : w \notin skip_words), 3)
  IN  \/ t1 = t2
      \/ Contains(t1, t2) \/ Contains(t2, t1)
      \/ Take(t1, 5) = Take(t2, 5)
      \/ sig(t1) = sig(t2)

Titles ==
  { <<"How", "to", "Scale", "|", "Jane", "Doe">>,
    <<"The", "Growth", "Playbook">> }

\* the episode links of the show page: text and resolved href
PageLinks ==
  { [text |-> <<"jane", "doe">>, href |-> EpisodeUrl(2)],
    [text |-> <<"How", "to", "Scale", "|", "Jane", "Doe">>, href |-> EpisodeUrl(1)],
    [text |-> <<"growth", "playbook">>, href |-> EpisodeUrl(1)],
    [text |-> <<"pricing", "teardown">>, href |-> EpisodeUrl(2)] }

PageListings ==
  {<<>>} \cup {<<l>> : l \in PageLinks}
         \cup {<<l, m>> : l \in PageLinks, m \in PageLinks}

\* the episodes the three detectors hand over: _parse_entry (RSS link, any
\* site), _extract_apple_episode_data (href of the first episode link, or
\* none) and _extract_episode_from_page_text (the show URL itself)
PageEpisodes ==
  { [via |-> v, title |-> t, episode_url |-> u, apple_podcasts_url |-> a] :
      v \in {"rss"}, t \in Titles, u \in {NoUrl, SiteUrl, EpisodeUrl(1)},
      a \in {NoUrl, ShowUrl} }
  \cup
  { [via |-> "apple", title |-> t, episode_url |-> u,
     apple_podcasts_url |-> IF u # NoUrl THEN u ELSE ShowUrl] :
      t \in Titles, u \in {NoUrl, EpisodeUrl(1)} }
  \cup
  { [via |-> "page_text", title |-> t, episode_url |-> ShowUrl,
     apple_podcasts_url |-> ShowUrl] : t \in Titles }

\* the first link whose text matches, or none
RECURSIVE FirstMatch(_, _)
FirstMatch(title, links) ==
  IF links = <<>> THEN NoUrl
  ELSE IF _titles_match(normalize(title), normalize(Head(links).text))
         THEN Head(links).href
         ELSE FirstMatch(title, Tail(links))

\* SubClubTranscriptStrategy.fetch_transcript is called
page_fetch_transcript ==
  /\ strat.pc = "idle"
  /\ \E e \in PageEpisodes, ls \in PageListings, browser \in BOOLEAN :
       strat' = [pc |-> IF browser THEN "find" ELSE "done", episode |-> e,
                 links |-> ls, loaded |-> <<>>, matches |-> {},
                 url |-> NoUrl, scraped |-> NoUrl, result |-> "None"]
  /\ UNCHANGED AudioVars

\* _find_episode_url
page_find_episode_url ==
  /\ strat.pc = "find"
  /\ LET e == strat.episode IN
     IF e.episode_url # NoUrl /\ IsApple(e.episode_url)
       THEN strat' = [strat EXCEPT !.url = e.episode_url, !.pc = "goto"]
     ELSE IF e.apple_podcasts_url = NoUrl
       THEN strat' = [strat EXCEPT !.pc = "done"]
     ELSE \E ok \in BOOLEAN :
       LET found == FirstMatch(e.title, strat.links) IN
       strat' = IF ~ok
                  THEN [strat EXCEPT !.pc = "done",
                                     !.loaded = Append(@, e.apple_podcasts_url)]
                  ELSE [strat EXCEPT
                          !.loaded = Append(@, e.apple_podcasts_url),
                          !.matches =
                            {[t1 |-> e.title, t2 |-> strat.links[k].text,
                              r |-> _titles_match(normalize(e.title),
                                                  normalize(strat.links[k].text))] :
                               k \in {j \in 1..Len(strat.links) :
                                         FirstMatch(e.title, SubSeq(strat.links, 1, j - 1)) = NoUrl}},
                          !.url = found,
                          !.pc = IF found = NoUrl THEN "done" ELSE "goto"]
  /\ UNCHANGED AudioVars

\* browser.goto(episode_url) and _extract_from_highlights
page_extract ==
  /\ strat.pc = "goto"
  /\ \E out \in {"raise", "None", "text"} :
       strat' = [strat EXCEPT
                   !.pc = "done",
                   !.loaded = Append(@, strat.url),
                   !.scraped = IF out = "raise" THEN NoUrl ELSE strat.url,
                   !.result = IF out = "text" THEN "text" ELSE "None"]
  /\ UNCHANGED AudioVars

(***************************************************************************)
(* LennysTranscriptStrategy: the archive client.  A guest name or a file   *)
(* stem is the sequence of its words; ext is Path(name).suffix.            *)
(***************************************************************************)
NoFile == [stem |-> <<>>, ext |-> "-"]

ArchiveFiles ==
  { [stem |-> <<"Jane", "Doe">>, ext |-> ".txt"],
    [stem |-> <<"jane", "smith", "transcript">>, ext |-> ".TXT"],
    [stem |-> <<"John", "Roe">>, ext |-> ".md"],
    [stem |-> <<"Jane", "Doe", "notes">>, ext |-> ".pdf"],
    [stem |-> <<"Doe">>, ext |-> ""] }

GuestNames == {<<"Jane", "Doe">>, <<"john", "roe">>, <<"Ann", "Lee">>}

\* what the three locators of _list_dropbox_files find on the folder page
\* (NoFile: an element without usable name or href), and which of the
\* three .all() calls raises (0: none)
ArchivePages ==
  { [rows |-> r, table_links |-> t, scl_links |-> l, raises |-> x] :
      r \in {<<>>, <<NoFile>>} \cup {<<f>> : f \in ArchiveFiles}
              \cup {<<f, g>> : f \in ArchiveFiles, g \in ArchiveFiles},
      t \in {<<>>, <<NoFile>>, <<[stem |-> <<"Doe">>, ext |-> ""]>>},
      l \in {<<>>, <<[stem |-> <<"Jane", "Doe">>, ext |-> ".txt"]>>},
      x \in 0..3 }

RunFallbackAlways(files) == TRUE

\* if not files:
RunFallback(files) == files = <<>>

\* files and the strategies that ran; an exception of a locator is caught
\* by the outer handler, which returns []
_list_dropbox_files(page) ==
  LET usable(l) == SelectSeq(l, LAMBDA f : f # NoFile)
      s1 == usable(page.rows)
      r2 == RunFallback(s1)
      s2 == IF r2 THEN s1 \o usable(page.table_links) ELSE s1
      r3 == RunFallback(s2)
      s3 == IF r3 THEN s2 \o usable(page.scl_links) ELSE s2
  IN  IF page.raises = 1 THEN [files |-> <<>>, tried |-> <<1>>]
      ELSE IF ~r2 /\ ~r3 THEN [files |-> s1, tried |-> <<1>>]
      ELSE IF r2 /\ page.raises = 2 THEN [files |-> <<>>, tried |-> <<1, 2>>]
      ELSE IF ~r3 THEN [files |-> s2, tried |-> <<1, 2>>]
      ELSE IF page.raises = 3
        THEN [files |-> <<>>, tried |-> IF r2 THEN <<1, 2, 3>> ELSE <<1, 3>>]
      ELSE [files |-> s3, tried |-> IF r2 THEN <<1, 2, 3>> ELSE <<1, 3>>]

\* the score _find_matching_file gives one file
FileScore(file_info, guest_name) ==
  LET g == normalize(guest_name)
      st == normalize(file_info.stem)
      exact == IF Contains(g, st) \/ Contains(st, g) THEN 10 ELSE 0
      matching_parts ==
        Cardinality({k \in 1..Len(g) : \E j \in 1..Len(st) : st[j] = g[k]})
  IN  exact + (IF matching_parts = Len(g) THEN 5 ELSE matching_parts)

BetterOrEqual(score, best_score) == score >= best_score

\* if score > best_score:
Better(score, best_score) == score > best_score

\* the loop of _find_matching_file from the state (best_match, best_score)
RECURSIVE BestMatch(_, _, _, _)
BestMatch(files, guest_name, best_match, best_score) ==
  IF files = <<>>
    THEN IF best_match # NoFile /\ best_score > 0 THEN best_match ELSE NoFile
    ELSE LET score == FileScore(Head(files), guest_name) IN
         IF Better(score, best_score)
           THEN BestMatch(Tail(files), guest_name, Head(files), score)
           ELSE BestMatch(Tail(files), guest_name, best_match, best_score)

_find_matching_file(files, guest_name) == BestMatch(files, guest_name, NoFile, 0)

\* what _download_and_parse_file returns for a response
_download_and_parse_file(file_info, response) ==
  LET file_ext == Lower(file_info.ext) IN
  IF response = "raise" THEN "None"
  ELSE IF file_ext = ".txt" THEN (IF response = "long" THEN "text" ELSE "None")
  ELSE IF file_ext \in {".pdf", ".doc", ".docx"} THEN "None"
  ELSE IF response = "long" THEN "text" ELSE "short_text"

\* fetch_transcript(episode, podcast, browser) or detect_and_fetch_latest
dropbox_call ==
  /\ strat.pc = "idle"
  /\ \E entry \in {"fetch_transcript", "detect_and_fetch_latest"},
        g \in GuestNames \cup {<<>>}, page \in ArchivePages, ok \in BOOLEAN :
       /\ entry = "detect_and_fetch_latest" => g = <<>>
       /\ strat' = [pc |-> IF ~ok \/ (entry = "fetch_transcript" /\ g = <<>>)
                             THEN "done" ELSE "list",
                    entry |-> entry, guest_name |-> g, page |-> page,
                    files |-> <<>>, tried |-> <<>>, chosen |-> NoFile,
                    downloads |-> 0, enriched |-> FALSE, result |-> "None",
                    overlay |-> "-", base |-> NoEpisode, episode |-> NoEpisode,
                    filename |-> NoGuid]
  /\ UNCHANGED AudioVars

\* files = self._list_dropbox_files(browser); if not files: return None;
\* then files[0] for the detection
dropbox_list ==
  /\ strat.pc = "list"
  /\ LET l == _list_dropbox_files(strat.page) IN
     strat' = [strat EXCEPT
                 !.files = l.files, !.tried = l.tried,
                 !.chosen = IF l.files # <<>> /\ strat.entry = "detect_and_fetch_latest"
                              THEN l.files[1] ELSE NoFile,
                 !.pc = IF l.files = <<>> THEN "done"
                        ELSE IF strat.entry = "fetch_transcript" THEN "match"
                        ELSE "download"]
  /\ UNCHANGED AudioVars

\* matching_file = self._find_matching_file(files, guest_name)
dropbox_match ==
  /\ strat.pc = "match"
  /\ LET m == _find_matching_file(strat.files, strat.guest_name) IN
     strat' = [strat EXCEPT !.chosen = m,
                            !.pc = IF m = NoFile THEN "done" ELSE "download"]
  /\ UNCHANGED AudioVars

\* transcript = self._download_and_parse_file(browser, file)
dropbox_download ==
  /\ strat.pc = "download"
  /\ \E response \in {"raise", "short", "long"} :
       LET t == _download_and_parse_file(strat.chosen, response) IN
       strat' = [strat EXCEPT
                   !.downloads = @ + 1,
                   !.result = t,
                   !.pc = IF strat.entry = "detect_and_fetch_latest" /\ t # "None"
                            THEN "enrich" ELSE "done"]
  /\ UNCHANGED AudioVars

\* _enrich_from_apple_podcasts: the overlay of what the latest episode's
\* page gives on the base episode ("details": title and date, "link_only":
\* the page of the link could not be read), or None (found = FALSE)
_enrich_from_apple_podcasts_new_guid(episode, found) ==
  IF found \in {"no_apple_url", "no_links", "raise"} THEN NoEpisode
  ELSE [episode EXCEPT
          !.guid = UrlGuid("A"),
          !.title = IF found = "details" THEN "apple title" ELSE @,
          !.published_date = IF found = "details" THEN PubDate("B") ELSE @]

_enrich_from_apple_podcasts(episode, found) ==
  IF found \in {"no_apple_url", "no_links", "raise"} THEN NoEpisode
  ELSE [episode EXCEPT
          !.title = IF found = "details" THEN "apple title" ELSE @,
          !.published_date = IF found = "details" THEN PubDate("B") ELSE @]

EnrichedOnly(episode, enriched_episode) == enriched_episode

\* if enriched_episode: episode = enriched_episode
EnrichedOrBase(episode, enriched_episode) ==
  IF enriched_episode.found THEN enriched_episode ELSE episode

\* the Episode built from the file, _enrich_from_apple_podcasts, then the
\* DropboxEpisodeResult
dropbox_enrich ==
  /\ strat.pc = "enrich"
  /\ \E found \in {"details", "link_only", "no_links", "no_apple_url", "raise"},
        modified_date \in {NoDate, PubDate("A")} :
       LET base == [found |-> TRUE, guid |-> DropboxGuid(strat.chosen),
                    track |-> Filename(strat.chosen), title |-> "file title",
                    published_date |-> modified_date, has_url |-> TRUE]
       IN  strat' = [strat EXCEPT
                       !.enriched = TRUE, !.overlay = found, !.base = base,
                       !.episode = EnrichedOrBase(base,
                                     _enrich_from_apple_podcasts(base, found)),
                       !.filename = Filename(strat.chosen),
                       !.pc = "returned"]
  /\ UNCHANGED AudioVars

\* _process_podcast_via_dropbox from the result on: is_new_episode on the
\* filename, summary, notification, update_last_episode with the filename
dropbox_process_result ==
  /\ strat.pc = "returned"
  /\ \E llm_ok \in BOOLEAN, delivered \in BOOLEAN, how \in {"ok", "open_fail"} :
       LET p == "lennys-podcast"
           isnew == is_new_episode(data, p, strat.filename)
           success == isnew /\ llm_ok /\ delivered
           u == update_last_episode(data, file, p, strat.filename,
                                    strat.episode.title,
                                    strat.episode.published_date, 1, how)
       IN  /\ (~success => how = "ok")
           /\ data' = IF success THEN u.data ELSE data
           /\ file' = IF success THEN u.file ELSE file
           /\ sent' = IF success THEN [sent EXCEPT ![p] = @ \cup {strat.filename}]
                      ELSE sent
           /\ strat' = [strat EXCEPT !.pc = "done"]
  /\ UNCHANGED <<pc, cfg, seed, runs, idx, errors, ev, attempted, uncollected,
                 errNotifs, focus, op, fx>>

(***************************************************************************)
(* TelegramService._send_message and split_message.  A message is the      *)
(* sequence of its paragraphs (separated by a blank line), a paragraph the *)
(* sequence of its sentences (separated by one space), a sentence its      *)
(* length in characters.  A chunk is its length and the sentences in it,   *)
(* each named by paragraph and position.                                   *)
(***************************************************************************)
MAX_MESSAGE_LENGTH == 4096

Messages ==
  LET Sentences  == {1200, 2600, 4100}
      Paragraphs == {<<a>> : a \in Sentences}
                      \cup {<<a, b>> : a \in Sentences, b \in Sentences}
  IN  {<<x>> : x \in Paragraphs} \cup {<<x, y>> : x \in Paragraphs, y \in Paragraphs}

\* len of the items joined by a separator of sep characters
RECURSIVE TextLen(_, _)
TextLen(lengths, sep) ==
  IF lengths = <<>> THEN 0
  ELSE IF Len(lengths) = 1 THEN lengths[1]
  ELSE lengths[1] + sep + TextLen(Tail(lengths), sep)

\* "for sentence in sentences" from sentence si on; st is (chunks,
\* current_chunk)
RECURSIVE SplitSentences(_, _, _, _, _)
SplitSentences(sentences, pi, si, st, max_length) ==
  IF si > Len(sentences) THEN st
  ELSE LET sentence == sentences[si]
           cur == st.current
           next == IF cur.len + sentence + 1 > max_length
                     THEN [chunks |-> IF cur.len > 0 THEN Append(st.chunks, cur)
                                      ELSE st.chunks,
                           current |-> [len |-> sentence, parts |-> <<<<pi, si>>>>]]
                     ELSE [chunks |-> st.chunks,
                           current |-> [len |-> IF cur.len > 0
                                                  THEN cur.len + 1 + sentence
                                                  ELSE sentence,
                                        parts |-> Append(cur.parts, <<pi, si>>)]]
       IN  SplitSentences(sentences, pi, si + 1, next, max_length)

\* "for paragraph in paragraphs" from paragraph pi on, and the final append
RECURSIVE SplitParagraphs(_, _, _, _)
SplitParagraphs(text, pi, st, max_length) ==
  IF pi > Len(text)
    THEN IF st.current.len > 0 THEN Append(st.chunks, st.current) ELSE st.chunks
  ELSE LET paragraph == text[pi]
           l == TextLen(paragraph, 1)
           cur == st.current
           whole == [k \in 1..Len(paragraph) |-> <<pi, k>>]
           flushed == [chunks |-> IF cur.len > 0 THEN Append(st.chunks, cur)
                                  ELSE st.chunks,
                       current |-> [len |-> 0, parts |-> <<>>]]
       IN  IF cur.len + l + 2 > max_length
             THEN IF l > max_length
                    THEN SplitParagraphs(text, pi + 1,
                           SplitSentences(paragraph, pi, 1, flushed, max_length),
                           max_length)
                    ELSE SplitParagraphs(text, pi + 1,
                           [flushed EXCEPT !.current = [len |-> l, parts |-> whole]],
                           max_length)
             ELSE SplitParagraphs(text, pi + 1,
                    [st EXCEPT !.current =
                       [len |-> IF cur.len > 0 THEN cur.len + 2 + l ELSE l,
                        parts |-> cur.parts \o whole]],
                    max_length)

split_message(text, max_length) ==
  LET total == TextLen([k \in 1..Len(text) |-> TextLen(text[k], 1)], 2) IN
  IF total <= max_length
    THEN <<[len |-> total,
            parts |-> SplitParagraphs(text, 1,
                        [chunks |-> <<>>, current |-> [len |-> 0, parts |-> <<>>]],
                        total)[1].parts]>>
    ELSE SplitParagraphs(text, 1,
           [chunks |-> <<>>, current |-> [len |-> 0, parts |-> <<>>]], max_length)

\* _send_message: the texts handed to _make_request, in order; a request
\* that raises ends the call.  The part header "<b>[Part i/n]</b>" and the
\* blank line after it are 19 characters for fewer than ten parts.
telegram_send_message ==
  /\ strat.pc = "idle"
  /\ \E message \in Messages, all_ok \in BOOLEAN :
       LET total  == TextLen([k \in 1..Len(message) |-> TextLen(message[k], 1)], 2)
           chunks == split_message(message, MAX_MESSAGE_LENGTH - 100)
           texts  == IF total > MAX_MESSAGE_LENGTH
                       THEN [k \in 1..Len(chunks) |->
                               [len |-> chunks[k].len
                                          + (IF Len(chunks) > 1 THEN 19 ELSE 0),
                                parts |-> chunks[k].parts]]
                       ELSE split_message(message, total)
       IN  strat' = [pc |-> "done", message |-> message, total |-> total,
                     requests |-> IF all_ok THEN texts ELSE SubSeq(texts, 1, 1),
                     raised |-> ~all_ok]
  /\ UNCHANGED AudioVars

(***************************************************************************)
(* RSSParser: fetching the feed.  first is what the httpx request with the *)
(* browser headers does, second what feedparser.parse(url, agent=...)      *)
(* does.                                                                   *)
(***************************************************************************)
_fetch_rss_content_any_status(first, second) ==
  LET feedparser ==
        [content |-> IF second \in {"entries", "no_entries"}
                       THEN "__FEEDPARSER_DIRECT__" ELSE "None",
         tried |-> <<"httpx", "feedparser">>]
  IN  CASE first \in {"ok", "ok_no_entries"} -> [content |-> "xml", tried |-> <<"httpx">>]
        [] OTHER -> feedparser

\* _fetch_rss_content with _fetch_with_feedparser: the content, and the
\* fetch paths that were tried
_fetch_rss_content(first, second) ==
  LET feedparser ==
        [content |-> IF second \in {"entries", "no_entries"}
                       THEN "__FEEDPARSER_DIRECT__" ELSE "None",
         tried |-> <<"httpx", "feedparser">>]
  IN  CASE first \in {"ok", "ok_no_entries"} -> [content |-> "xml", tried |-> <<"httpx">>]
        [] first = "status_403" -> feedparser
        [] first \in {"status_404", "status_500"} ->
             [content |-> "None", tried |-> <<"httpx">>]
        [] OTHER -> feedparser

\* RSSParser.fetch_latest_episode: the fetch, the parse, the first entry;
\* every exception gives None
rss_fetch_latest_episode ==
  /\ strat.pc = "idle"
  /\ \E first \in {"ok", "ok_no_entries", "status_403", "status_404",
                   "status_500", "network_error"},
        second \in {"entries", "no_entries", "bozo_no_entries", "raise"},
        parse_entry_ok \in BOOLEAN :
       LET c == _fetch_rss_content(first, second)
           entries == IF c.content = "xml" THEN first = "ok"
                      ELSE c.content # "None" /\ second = "entries"
       IN  strat' = [pc |-> "done", first |-> first, second |-> second,
                     fetches |-> c.tried,
                     episode |-> IF entries /\ parse_entry_ok
                                   THEN fetch_latest_episode("A", "found")
                                   ELSE NoEpisode,
                     raised |-> FALSE]
  /\ UNCHANGED AudioVars

NextStrategy ==
  \/ rss_fetch_latest_episode
  \/ page_fetch_transcript \/ page_find_episode_url \/ page_extract
  \/ dropbox_call \/ dropbox_list \/ dropbox_match \/ dropbox_download
  \/ dropbox_enrich \/ dropbox_process_result
  \/ telegram_send_message

\* the services of a process whose tracker is empty, or holds for the
\* archive-detected show a file name that an earlier cycle stored
InitStrategy ==
  /\ pc = "off" /\ seed = 1 /\ runs = 0 /\ idx = 1
  /\ errors = <<>> /\ ev = NoEvent /\ attempted = <<>>
  /\ sent = [p \in PodcastIds |-> {}]
  /\ uncollected = FALSE /\ errNotifs = 0
  /\ op = NoOp /\ fx = NoFetch
  /\ cfg = Shipped
  /\ focus = "-"
  /\ strat = NoCall
  /\ \E m \in {EmptyMap} \cup
              {[EmptyMap EXCEPT !["lennys-podcast"] =
                  NewEntry(Filename(f), "file title", NoDate, 0)] :
                 f \in {[stem |-> <<"Jane", "Doe">>, ext |-> ".txt"],
                        [stem |-> <<"Doe">>, ext |-> ""]}} :
       /\ data = [shape |-> "dict", m |-> m]
       /\ file = IF m = EmptyMap THEN MissingFile ELSE JsonFile(m)

SpecStrategy == InitStrategy /\ [][NextStrategy]_vars

(***************************************************************************)
(* The claims.  A cycle is a step that appends to attempted.               *)
(***************************************************************************)

\* C1 (SpecRuns): across any sequence of normal runs and any sequence of
\* latest-episode identifiers the detector reports for a podcast (A, then
\* B, then A again included), an identifier of that podcast causes at most
\* one successful summary notification: a cycle never notifies an
\* identifier that an earlier cycle of the podcast notified.
C1_AtMostOneNotification ==
  [][(Len(attempted') = Len(attempted) + 1 /\ ev'.notified)
       => ev'.guid \notin sent[ev'.p]]_vars

\* the state C1 fails in: the third process notifies the identifier the
\* first one notified, the tracker having moved on to another in between
C1_Renotified ==
  /\ runs = 3
  /\ ev.notified
  /\ ev.method = "rss"
  /\ sent[ev.p] = {RssGuid("A"), RssGuid("B")}
  /\ data.m[ev.p].guid = RssGuid("A")

\* C2 (SpecRuns): when the previous run processed an episode of a podcast
\* successfully (the podcast's entry was written by it) and this run's
\* detector reports the same episode (no new release), this run's cycle
\* sends no summary notification for the podcast and leaves its entry
\* (guid, title, published date, processed_at) unchanged, whatever the
\* detection method.
C2_SecondRunIdempotent ==
  [][\A p \in PodcastIds :
       ( /\ Len(attempted') = Len(attempted) + 1
         /\ ev'.p = p
         /\ ev'.detected
         /\ data.m[p].present
         /\ data.m[p].processed_at = isoformat(runs - 1)
         /\ data.m[p].title = ev'.episode )
       => (~ev'.notified /\ data'.m[p] = data.m[p])]_vars

\* the state C2 fails in: the same episode, found by page scrape in two
\* consecutive processes, is notified again under another hash seed
C2_SameEpisodeNotifiedAgain ==
  /\ runs = 2
  /\ ev.notified
  /\ ev.method = "apple"
  /\ \E e \in Episodes :
       /\ ev.episode = e
       /\ sent[ev.p] = {AppleHashGuid(e, 1), AppleHashGuid(e, 2)}

\* C3 (SpecTracker): the tracker write is atomic with respect to crashes:
\* when the process crashes while update_last_episode or clear persists
\* the state, the file holds the complete previous contents or the
\* complete new contents.
C3_WriteAtomic ==
  pc = "crashed" => file \in {op.old, Serialize(data)}

\* the state C3 fails in: a crash between the truncation and the end of
\* the write leaves a file that held a document without one
C3_TruncatedByCrash ==
  /\ pc = "crashed"
  /\ op.name = "update"
  /\ op.old.kind = "json"
  /\ file = TruncatedFile

\* C4 (SpecFetch): when a fetch_transcript_sync call has returned or
\* raised, every page and context it opened is closed, and what it
\* launched temporarily is closed and stopped with the scraper's handles
\* reset to none.
C4_FetchReleasesAll ==
  (fx.pc = "idle" /\ fx.calls > 0) =>
    /\ fx.pages = 0
    /\ fx.contexts = 0
    /\ fx.browsers = 0
    /\ fx.playwrights = 0
    /\ (fx.temp => fx.browser = "none" /\ fx.playwright = "none")

\* the state C4 fails in: new_page raised on the run's browser and the
\* call has left its context open
C4_ContextLeftOpen ==
  /\ fx.pc = "idle"
  /\ fx.out = "raise"
  /\ fx.browser = "run"
  /\ fx.contexts = 1
  /\ fx.pages = 0

\* C5 (Spec): when a run has ended, every per-podcast failure of it
\* (detection, transcript, summary, delivery, tracker update) is in the
\* collected errors, and the run sent exactly one error notification if a
\* podcast failed and none if none did.
C5_ErrorsAggregated ==
  pc = "exited" =>
    /\ ~uncollected
    /\ errNotifs = (IF errors # <<>> \/ uncollected THEN 1 ELSE 0)

\* the state C5 fails in: a run in which a failure was swallowed ends
\* without any error notification
C5_FailureUnreported ==
  /\ pc = "exited"
  /\ uncollected
  /\ errors = <<>>
  /\ errNotifs = 0

\* C6 (Spec): in a run the podcasts are attempted one at a time in
\* configuration order, each once, whatever happened to the ones before;
\* an exception in a cycle does not end the loop; and a cycle that fails
\* keeps the entries the tracker file holds for the other podcasts.
C6_EveryPodcastAttempted ==
  /\ [](/\ attempted = SubSeq(PODCASTS, 1, Len(attempted))
        /\ (pc = "running" => idx = Len(attempted) + 1)
        /\ (pc = "exited" => attempted = PODCASTS))
  /\ [][(Len(attempted') = Len(attempted) + 1 /\ pc' # "crashed")
         => /\ pc' = "running"
            /\ \A q \in PodcastIds \ {ev'.p} :
                 (file.kind = "json" /\ file.m[q].present)
                   => (file'.kind = "json" /\ file'.m[q].present)]_vars

\* the state C6 fails in: the tracker update of a later podcast raised
\* and the file no longer holds what it held for the earlier ones
C6_EarlierEntriesLost ==
  /\ pc = "running"
  /\ ev.exc
  /\ ev.sv = "write_fail"
  /\ file = TruncatedFile
  /\ \E q \in PodcastIds \ {ev.p} : data.m[q].present

\* C7 (Spec): a cycle whose detector answered "no episode found" sends no
\* summary notification, leaves the tracker (memory and file) unchanged,
\* does not end the run, and the loop moves on to the next podcast.
C7_NotFoundSkips ==
  [][(Len(attempted') = Len(attempted) + 1 /\ ev'.searched /\ ~ev'.detected)
       => /\ ~ev'.notified
          /\ sent' = sent
          /\ data' = data
          /\ file' = file
          /\ pc' = "running"
          /\ idx' = idx + 1]_vars

\* a page-scrape detection found nothing for the second podcast, whose
\* entry is still there, and the loop stands at the third
C7_NotFoundReached ==
  /\ ev.searched
  /\ ~ev.detected
  /\ ev.method = "apple"
  /\ ~ev.exc
  /\ data.m[ev.p].present
  /\ pc = "running"
  /\ idx = 3

\* C8 (Spec): every cycle uses the detection method its podcast's flags
\* select with priority archive > page scrape > RSS; a podcast with
\* neither flag set is detected via RSS.
C8_DetectionPriority ==
  ev.p # "-" =>
    ev.method = (IF use_dropbox_for_detection(cfg[ev.p]) THEN "dropbox"
                 ELSE IF use_apple_for_detection(cfg[ev.p]) THEN "apple"
                 ELSE "rss")

\* the state C8 fails in: a podcast as podcasts.py configures it, and the
\* read of the missing attribute has raised
C8_AttributeErrorReached ==
  /\ ev.p \in PodcastIds
  /\ cfg[ev.p] = "absent"
  /\ ev.method = "AttributeError"
  /\ ev.exc

\* C9 (SpecTracker): is_new_episode(podcast, guid) returns false exactly
\* when the tracker holds an entry for the podcast, as update_last_episode
\* writes it, whose guid equals guid (true when there is no entry or the
\* guid differs), and the call leaves memory and file as they were.
C9_IsNewExact ==
  op.name = "is_new" =>
    /\ op.result = ~( /\ op.before.m[op.p].present
                      /\ op.before.m[op.p].keys = "full"
                      /\ op.before.m[op.p].guid = op.guid )
    /\ data = op.before
    /\ file = op.old

\* is_new_episode answered false for the guid an update stored, after it
\* had been stored over another one
C9_StoredGuidNotNew ==
  /\ op.name = "is_new"
  /\ ~op.result
  /\ op.guid = RssGuid("B")
  /\ data.m[op.p].guid = RssGuid("B")
  /\ data.m[op.p].processed_at = isoformat(2)

\* C10 (SpecTracker): loading never raises and gives the empty state for
\* every file that is not a tracker document; an update_last_episode whose
\* write completes does not raise and leaves the file holding exactly the
\* in-memory state.
C10_LoadTolerant ==
  /\ (op.name = "load" =>
        /\ ~op.raised
        /\ (op.old.kind # "json" => data = EmptyData))
  /\ (op.name = "update" /\ op.how = "ok" =>
        /\ ~op.raised
        /\ data.shape = "dict"
        /\ file = JsonFile(data.m))

\* the state C10 fails in: the constructor raised on a file whose bytes
\* are not UTF-8
C10_LoadRaised ==
  /\ op.name = "load"
  /\ op.raised
  /\ op.old.kind = "badutf8"
  /\ pc = "fatal"

C12_AudioTempFilesRemoved ==
  strat.pc = "done" => (~strat.tmp /\ strat.disk = {})

\* the splitter failed after exporting a segment, and the call is over
C12_SegmentLeftBehind ==
  /\ strat.pc = "done"
  /\ strat.local # <<>>
  /\ strat.chunk_paths = <<>>
  /\ strat.disk # {}

\* C13: every file handed to the transcription API is at most 25 MB: the
\* download is transcribed directly exactly when its size is at most 25 MB,
\* and every segment the splitter keeps is at most 25 MB.
C13_SubmittedWithinLimit ==
  strat.pc # "idle" =>
    /\ \A k \in 1..Len(strat.submitted) : strat.submitted[k] <= 25
    /\ \A k \in 1..Len(strat.local) : strat.local[k].size <= 25
    /\ strat.pc = "direct" => strat.asset.size <= 25
    /\ strat.pc \in {"split", "export", "transcribe"} => strat.asset.size > 25
    /\ (strat.submitted # <<>> /\ strat.texts = <<>>)
         => strat.submitted = <<strat.asset.size>> /\ strat.asset.size <= 25

\* a 30 MB download whose first export was too large has been split again
\* and all its segments submitted
C13_OversizeSegmentRedone ==
  /\ strat.pc = "done"
  /\ strat.asset.size = 30
  /\ strat.made > Len(strat.chunk_paths)
  /\ Len(strat.submitted) = Len(strat.chunk_paths)
  /\ Len(strat.submitted) >= 2

\* C14: every export of the splitter runs with a target segment duration
\* of at least 60 seconds, also after the target was shrunk by 0.7.
C14_TargetAtLeastMinute ==
  strat.pc # "idle" =>
    /\ \A k \in 1..Len(strat.used) : strat.used[k] >= 60
    /\ strat.pc = "export" => strat.target >= 60

\* an export ran with a 42 second target after the 60 second one was too large
C14_ShrunkBelowMinute ==
  /\ strat.pc # "idle"
  /\ Len(strat.used) >= 2
  /\ strat.used[1] = 60
  /\ strat.used[2] = 42

\* C15: once every segment has been transcribed, the result is not-found
\* exactly when no segment gave text; otherwise it holds the texts of the
\* segments that gave text, in segment order, separated by single spaces,
\* with nothing from a failed segment.
C15_ChunkedTranscriptJoined ==
  (/\ strat.pc \in {"finally", "done"}
   /\ strat.chunk_paths # <<>>
   /\ Len(strat.texts) = Len(strat.chunk_paths))
  =>
  LET n     == Len(strat.texts)
      ok    == {k \in 1..n : Truthy(strat.texts[k])}
      r     == strat.result
      words == SelectSeq(r, LAMBDA x : x > 0)
      worded == {k \in ok : \E j \in 1..Len(strat.texts[k]) : strat.texts[k][j] = k}
  IN  /\ (r = NoText) <=> (ok = {})
      /\ r # NoText =>
           /\ {words[j] : j \in 1..Len(words)} = worded
           /\ \A j \in 1..Len(words) : \A l \in 1..Len(words) :
                 j < l => words[j] < words[l]
           /\ \A j \in 1..Len(r) :
                 r[j] = 0 => (j > 1 /\ j < Len(r) /\ r[j + 1] # 0)

\* three segments, the middle one failed, the result is "w1 w3"
C15_MiddleSegmentOmitted ==
  /\ strat.pc = "done"
  /\ Len(strat.texts) = 3
  /\ strat.texts[2] = NoText
  /\ strat.result = <<1, 0, 3>>

\* C16: the page extractor never loads the podcast's show page to extract a
\* transcript: the URL it extracts from is an episode URL, whichever
\* detector produced the episode, and otherwise the result is not-found.
C16_NeverScrapesShowPage ==
  "scraped" \in DOMAIN strat =>
    /\ strat.scraped \in {NoUrl, EpisodeUrl(1), EpisodeUrl(2)}
    /\ strat.pc = "goto" => strat.url \in {EpisodeUrl(1), EpisodeUrl(2)}
    /\ strat.result = "text" => strat.scraped \in {EpisodeUrl(1), EpisodeUrl(2)}

\* an episode of the raw-text fallback got its transcript from the show page
C16_ShowPageScraped ==
  /\ "scraped" \in DOMAIN strat
  /\ strat.pc = "done"
  /\ strat.episode.via = "page_text"
  /\ strat.scraped = ShowUrl
  /\ strat.result = "text"

\* C17: _titles_match("How to Scale | Jane Doe", "jane doe") is false.
C17_ShortNameNoMatch ==
  "matches" \in DOMAIN strat =>
    \A m \in strat.matches :
      (m.t1 = <<"How", "to", "Scale", "|", "Jane", "Doe">> /\ m.t2 = <<"jane", "doe">>)
        => ~m.r

\* the link "jane doe" was taken for the episode "How to Scale | Jane Doe"
C17_ShortNameMatched ==
  /\ "matches" \in DOMAIN strat
  /\ strat.episode.title = <<"How", "to", "Scale", "|", "Jane", "Doe">>
  /\ strat.links # <<>>
  /\ strat.links[1].text = <<"jane", "doe">>
  /\ strat.url = strat.links[1].href
  /\ [t1 |-> strat.episode.title, t2 |-> <<"jane", "doe">>, r |-> TRUE] \in strat.matches

\* C18: with 10 points for mutual containment of guest name and file stem,
\* 5 for all tokens of the name occurring in the stem and otherwise 1 per
\* occurring token, the matcher returns the first listed file of the highest
\* score if that score is positive, and no file exactly when every file
\* scores 0; fetch_transcript then returns not-found without a download.
C18_BestScoringFileChosen ==
  (/\ "chosen" \in DOMAIN strat
   /\ strat.entry = "fetch_transcript"
   /\ strat.files # <<>>
   /\ strat.pc \in {"download", "done"})
  =>
  LET g == normalize(strat.guest_name)
      n == Len(strat.files)
      stem(k) == normalize(strat.files[k].stem)
      occurring(k) == {t \in 1..Len(g) : \E j \in 1..Len(stem(k)) : stem(k)[j] = g[t]}
      sc(k) == (IF Contains(g, stem(k)) \/ Contains(stem(k), g) THEN 10 ELSE 0)
               + (IF occurring(k) = 1..Len(g) THEN 5 ELSE Cardinality(occurring(k)))
  IN  /\ strat.chosen # NoFile =>
           \E k \in 1..n :
             /\ strat.files[k] = strat.chosen
             /\ sc(k) > 0
             /\ \A j \in 1..n : sc(j) <= sc(k)
             /\ \A j \in 1..(k - 1) : sc(j) < sc(k)
      /\ (strat.chosen = NoFile) <=> (\A k \in 1..n : sc(k) = 0)
      /\ strat.chosen = NoFile =>
           (strat.pc = "done" /\ strat.downloads = 0 /\ strat.result = "None")

\* two different files score 15 for the guest and the first listed is chosen
C18_FirstOfEqualBest ==
  /\ "chosen" \in DOMAIN strat
  /\ strat.pc = "download"
  /\ Len(strat.files) = 2
  /\ strat.files[1] # strat.files[2]
  /\ FileScore(strat.files[1], strat.guest_name) = 15
  /\ FileScore(strat.files[2], strat.guest_name) = 15
  /\ strat.chosen = strat.files[1]

\* C19: the download-and-decode step returns text only for a .txt file; for
\* a file name with another extension or none it returns not-found.
C19_OnlyPlainTextDecoded ==
  ("downloads" \in DOMAIN strat /\ strat.downloads > 0
     /\ Lower(strat.chosen.ext) # ".txt")
  => strat.result = "None"

\* a .md file was downloaded and its body returned as the transcript
C19_OtherExtensionDecoded ==
  /\ "downloads" \in DOMAIN strat
  /\ strat.downloads > 0
  /\ strat.chosen.ext = ".md"
  /\ strat.result = "text"

\* C20: the listing runs its strategies in the order 1, 2, 3, a later one
\* only when the earlier ones gave no file; when none gives a file or a
\* locator raises the list is empty; and detect_and_fetch_latest on an empty
\* list ends not-found with nothing downloaded or enriched.
C20_ListingFallsBackInOrder ==
  ("tried" \in DOMAIN strat /\ strat.tried # <<>>) =>
    LET usable(l) == SelectSeq(l, LAMBDA f : f # NoFile)
        pg == strat.page
        ran(k) == \E j \in 1..Len(strat.tried) : strat.tried[j] = k
    IN  /\ strat.tried \in {<<1>>, <<1, 2>>, <<1, 2, 3>>}
        /\ ran(2) <=> (pg.raises # 1 /\ usable(pg.rows) = <<>>)
        /\ ran(3) <=> (ran(2) /\ pg.raises # 2 /\ usable(pg.table_links) = <<>>)
        /\ (pg.raises # 0 /\ ran(pg.raises)) => strat.files = <<>>
        /\ (usable(pg.rows) = <<>> /\ usable(pg.table_links) = <<>>
              /\ usable(pg.scl_links) = <<>>) => strat.files = <<>>
        /\ ~(pg.raises # 0 /\ ran(pg.raises)) =>
             strat.files = (IF ran(3) THEN usable(pg.scl_links)
                            ELSE IF ran(2) THEN usable(pg.table_links)
                            ELSE usable(pg.rows))
        /\ (strat.entry = "detect_and_fetch_latest" /\ strat.files = <<>>) =>
             /\ strat.pc = "done"
             /\ strat.result = "None"
             /\ strat.downloads = 0
             /\ ~strat.enriched

\* all three strategies ran without raising and found nothing usable, and
\* the detection ended not-found
C20_AllStrategiesEmpty ==
  /\ "tried" \in DOMAIN strat
  /\ strat.entry = "detect_and_fetch_latest"
  /\ strat.tried = <<1, 2, 3>>
  /\ strat.page.raises = 0
  /\ strat.page.rows = <<NoFile>>
  /\ strat.files = <<>>
  /\ strat.pc = "done"

\* C30: when the save of update_last_episode fails, the error reaches the
\* caller and _data is as before the call, so that an identifier for which
\* is_new_episode answers False is the one the file holds.
C30_FailedSaveRollsBack ==
  /\ (op.name = "update" /\ op.how \in {"open_fail", "write_fail"}) =>
       (op.raised /\ data = op.before)
  /\ (op.name = "is_new" /\ ~op.result) =>
       (file.kind = "json" /\ file.m[op.p].present /\ file.m[op.p].guid = op.guid)

\* the file could not be opened for writing, it still holds what it held,
\* and _data already names the new episode
C30_MemoryAheadOfFile ==
  /\ op.name = "update"
  /\ op.how = "open_fail"
  /\ op.raised
  /\ file = op.old
  /\ data.m[op.p].guid = op.guid
  /\ op.before.m[op.p].guid # op.guid
  /\ ~(file.kind = "json" /\ file.m[op.p].guid = op.guid)

C25_SentTextsWithinLimit ==
  "requests" \in DOMAIN strat =>
    /\ \A k \in 1..Len(strat.requests) : strat.requests[k].len <= 4096
    /\ ~strat.raised =>
         LET RECURSIVE Flat(_)
             Flat(reqs) == IF reqs = <<>> THEN <<>>
                           ELSE Head(reqs).parts \o Flat(Tail(reqs))
             RECURSIVE All(_)
             All(pi) == IF pi > Len(strat.message) THEN <<>>
                        ELSE [k \in 1..Len(strat.message[pi]) |-> <<pi, k>>]
                               \o All(pi + 1)
         IN  Flat(strat.requests) = All(1)

\* a message of one sentence of 4100 characters went out as one text
C25_LongSentenceSentWhole ==
  /\ "requests" \in DOMAIN strat
  /\ strat.message = <<<<4100>>>>
  /\ ~strat.raised
  /\ Len(strat.requests) = 1
  /\ strat.requests[1].len = 4100

\* C23: the request with browser headers comes first; the second fetch path
\* is tried exactly when the first failed with status 403 or with an error
\* that is no HTTP status, and when both fail or the feed has no entries
\* the result is no episode, not an exception.
C23_FallbackOn403OrNetwork ==
  "fetches" \in DOMAIN strat =>
    /\ strat.fetches[1] = "httpx"
    /\ strat.fetches \in {<<"httpx">>, <<"httpx", "feedparser">>}
    /\ (Len(strat.fetches) = 2) <=> (strat.first \in {"status_403", "network_error"})
    /\ ~strat.raised
    /\ (strat.first = "ok_no_entries"
          \/ (strat.first \in {"status_404", "status_500"})
          \/ (Len(strat.fetches) = 2 /\ strat.second # "entries"))
         => ~strat.episode.found

\* the first fetch got 403 and the episode came from the second path
C23_EpisodeViaSecondPath ==
  /\ "fetches" \in DOMAIN strat
  /\ strat.first = "status_403"
  /\ strat.fetches = <<"httpx", "feedparser">>
  /\ strat.episode.found

\* C21: once the newest file's transcript is downloaded, the detection
\* returns a result, whether the enrichment gives an overlay, finds nothing
\* or raises; when it fails the episode returned is the base episode.
C21_EnrichmentIsBestEffort ==
  [][strat.pc = "enrich" =>
       /\ strat'.pc = "returned"
       /\ strat'.episode.found
       /\ strat'.result # "None"
       /\ strat'.overlay \in {"no_links", "no_apple_url", "raise"} =>
            strat'.episode = strat'.base]_vars

\* the enrichment raised and the detection returned the base episode
C21_BaseReturnedAfterRaise ==
  /\ strat.pc = "returned"
  /\ strat.overlay = "raise"
  /\ strat.episode.found
  /\ strat.episode = strat.base

\* C22: the episode the archive detection returns has the guid "dropbox-" +
\* name of the newest file, enriched or not, and the filename returned is
\* that name; the orchestrator compares the filename with the tracker and
\* stores the filename after a delivered summary, so that a file whose name
\* the tracker holds is not processed again.
C22_IdentityFromFilename ==
  [][strat.pc = "returned" =>
       LET p == "lennys-podcast" IN
       /\ strat.chosen = strat.files[1]
       /\ strat.episode.guid = DropboxGuid(strat.chosen)
       /\ strat.filename = Filename(strat.chosen)
       /\ sent'[p] # sent[p] =>
            /\ is_new_episode(data, p, strat.filename)
            /\ sent'[p] = sent[p] \cup {strat.filename}
            /\ ~is_new_episode(data', p, strat.filename)
       /\ ~is_new_episode(data, p, strat.filename) =>
            (data' = data /\ file' = file /\ sent' = sent)]_vars

\* the file the tracker holds was detected again, with an overlay from the
\* episode's page
C22_SameFileDetectedAgain ==
  /\ strat.pc = "returned"
  /\ strat.overlay = "details"
  /\ data.m["lennys-podcast"].present
  /\ data.m["lennys-podcast"].guid = strat.filename

\* C24: the force command, with every service answering, notifies the
\* latest episode of the named podcast, also when the tracker holds that
\* episode's identifier; it notifies for no other podcast, processes none in
\* the loop, and leaves tracker memory and file as they were.
C24_ForceBypassesTracker ==
  (strat.pc = "forced" /\ strat.p \in PodcastIds) =>
    /\ strat.clean => (strat.notified /\ ~strat.raised)
    /\ \A q \in PodcastIds \ {strat.p} : sent[q] = {}
    /\ attempted = <<>>
    /\ pc # "off" => data = strat.before
    /\ file = strat.old

\* a shipped podcast was forced with every service answering, and the
\* command ended in AttributeError without a notification
C24_ForceEndsInAttributeError ==
  /\ strat.pc = "forced"
  /\ strat.p \in PodcastIds
  /\ cfg[strat.p] = "absent"
  /\ strat.method = "AttributeError"
  /\ strat.raised
  /\ ~strat.notified

\* C26 (Spec): when a podcast's cycle is over, whatever its outcome
\* (detector answer, exception when the page is created or closed), every
\* browser context and page opened for its detection has been closed.
C26_DetectionContextsClosed ==
  (pc \in {"running", "crashed"} /\ ev.p # "-") => ev.unclosed = {}

\* the state C26 fails in: creating the page raised in a cycle of a
\* browser-detected podcast, the cycle is over and the loop goes on, and
\* the context opened for it was never closed
C26_ContextOpenAfterCycle ==
  /\ pc = "running"
  /\ ev.method \in {"dropbox", "apple"}
  /\ ev.exc
  /\ ~ev.searched
  /\ ev.unclosed = {"context"}

C28_EntryChangesOnlyAfterDelivery ==
  [][(pc # "off" /\ pc' # "off") =>
       \A q \in PodcastIds :
         /\ data'.m[q] # data.m[q] =>
              /\ Len(attempted') = Len(attempted) + 1
              /\ ev'.p = q /\ ev'.isnew /\ ev'.notified
              /\ data'.m[q].present /\ data'.m[q].guid = ev'.guid
         /\ file'.m[q] # file.m[q] =>
              /\ Len(attempted') = Len(attempted) + 1
              /\ ev'.p = q /\ ev'.isnew /\ ev'.notified
              /\ file'.m[q].present /\ file'.m[q].guid = ev'.guid]_vars

\* the state C28 fails in: the summary of one podcast was delivered, the
\* write of its tracker update raised, and the file's entry of another
\* podcast, which had no cycle since, is gone
C28_OtherEntryGone ==
  /\ pc = "running"
  /\ ev.notified
  /\ ev.updated
  /\ ev.sv = "write_fail"
  /\ \E q \in PodcastIds \ {ev.p} :
       /\ data.m[q].present
       /\ ~file.m[q].present

=============================================================================
